---- MODULE Spec2Model ----
(***************************************************************************)
(* State-machine model of the game-mode toggler: the session orchestrator  *)
(* (GameModeService), its providers (RegistryService, PowerService,        *)
(* NetworkService, WindowsServiceManager, ProcessService,                  *)
(* AdvancedModulesService, ReviTweaksService) and the application threads  *)
(* of main.rs (toggle workers and the process monitor).                    *)
(*                                                                         *)
(* The operating system is modelled by the variables reg, netbios,         *)
(* svcRunning, alive, suspCount, prio, pendingKill, activeScheme,          *)
(* schemeVals, ultimateExists and autotuning.  A registry value is a DWORD  *)
(* (a natural number), a string (a number below Absent) or does not exist  *)
(* (Absent).  Option<u32> uses the same encoding: None is Absent.          *)
(***************************************************************************)
EXTENDS Integers, Sequences, FiniteSets, TLC

(***************************************************************************)
(* Bounds of the model.                                                    *)
(***************************************************************************)
\* largest DWORD the environment writes into a registry value
MaxVal == 0
\* number of NetBT interface sub-keys
NumInterfaces == 1
\* number of environment events (changes by other programs, failing OS calls)
\* in one behaviour
MaxEnv == 1
\* number of orchestrator operations in one behaviour
MaxOps == 3
\* number of AdvancedModulesService operations in one behaviour
MaxAdvOps == 2
\* operations of AdvancedModulesService in a run of its demotion and
\* bufferbloat modules
MaxDemOps == 4
\* number of advanced modules switched on in one settings value
MaxFlags == 2
\* number of clicks on the toggle in one behaviour
MaxToggles == 2
\* number of changes of the settings pages in one behaviour
MaxChanges == 1
\* number of monitored processes that exit in one behaviour
MaxExits == 2
\* largest width and height of a window, one above the screen's
MaxDim == 3

Absent == -1
None == Absent

\* string data of registry values: the strings the code writes, and the
\* string whose bytes are those of the DWORD d
StrHigh == -2
StrNotSpecified == -3
StrOfDword(d) == -10 - d
DwordOfStr(v) == -10 - v

Interfaces == 1..NumInterfaces
EnvVals == {Absent} \cup (0..MaxVal)

(***************************************************************************)
(* Values written by the code.                                             *)
(***************************************************************************)
Win32PrioritySeparationTweak == 38
GamesPriorityTweak == 6
GamesGpuPriorityTweak == 8
AttributesUnlocked == 2
NetbiosDisable == 2
NetbiosDefault == 0
AutoRestartShellDefault == 1
BoostAggressive == 4
MinProcessorFull == 100

(***************************************************************************)
(* Registry value names (the value's path is implied by the name).         *)
(***************************************************************************)
GameModeKeys ==
    {"Win32PrioritySeparation", "AutoGameModeEnabled", "AllowAutoGameMode",
     "Priority", "GPU Priority", "Attributes", "AutoRestartShell",
     "EnableMulticast"}

\* values read or written by AdvancedModulesService (advanced_modules.rs)
AdvancedKeys ==
    {"ValueMin", "ValueMax", "SystemResponsiveness", "NoLazyMode",
     "Scheduling Category", "SFIO Priority", "Background Only", "Clock Rate",
     "LargeSystemCache", "LargePageMinimum", "HwSchMode"}

\* values only ReviTweaksService writes (revi_tweaks.rs)
ReviKeys == {"FolderType", "PowerThrottlingOff"}

\* values of the multi-plane-overlay switch (gamemode.rs)
MpoKeys == {"OverlayTestMode", "OverlayMinFPS"}

RegKeys == GameModeKeys \cup AdvancedKeys \cup ReviKeys \cup MpoKeys

(***************************************************************************)
(* Processes and services known to the model.  PidName gives the image     *)
(* name of a pid as extract_process_name returns it (".exe" stripped).     *)
(***************************************************************************)
\* the shell, shell-UX and browser processes
SessionPids == {10, 11, 12, 20}

\* background processes on the demotion list of enable_process_demotion
DemotePids == {30, 31}

\* games
GamePids == {40, 41}

\* std::process::id() of the application
current_pid == 5

Pids == SessionPids \cup DemotePids \cup GamePids \cup {current_pid}

PidName ==
    (30 :> "RuntimeBroker") @@ (31 :> "dllhost") @@
    (10 :> "SearchHost") @@ (11 :> "textinputhost") @@ (12 :> "chrome") @@
    (20 :> "explorer") @@ (40 :> "cs2") @@ (41 :> "Valheim") @@
    (current_pid :> "gamemode")

\* the names of the model that contain upper-case ASCII letters the model
\* distinguishes, with their lower-case form
LowerCased ==
    [n \in {"SearchHost", "SearchApp", "TextInputHost", "LockApp", "MoNotificationUx",
            "ShellExperienceHost", "StartMenuExperienceHost", "RuntimeBroker", "Valheim"} |->
        CASE n = "SearchHost" -> "searchhost"
          [] n = "SearchApp" -> "searchapp"
          [] n = "TextInputHost" -> "textinputhost"
          [] n = "LockApp" -> "lockapp"
          [] n = "MoNotificationUx" -> "monotificationux"
          [] n = "ShellExperienceHost" -> "shellexperiencehost"
          [] n = "StartMenuExperienceHost" -> "startmenuexperiencehost"
          [] n = "RuntimeBroker" -> "runtimebroker"
          [] n = "Valheim" -> "valheim"]

\* ASCII lower-casing of the names the model uses (eq_ignore_ascii_case)
Lower(n) == IF n \in DOMAIN LowerCased THEN LowerCased[n] ELSE n

eq_ignore_ascii_case(a, b) == Lower(a) = Lower(b)

BROWSERS == {"chrome", "firefox", "msedge", "brave", "opera", "vivaldi", "thorium"}
LAUNCHERS == {"epicgameslauncher", "battle.net", "origin", "gog galaxy"}
SHELL_UX ==
    {"SearchHost", "SearchApp", "TextInputHost", "LockApp", "MoNotificationUx",
     "ShellExperienceHost", "StartMenuExperienceHost"}
START_MENU_REPLACEMENTS ==
    {"StartAllBackX64", "StartAllBack", "OpenShellMenu", "ClassicStartMenu"}

\* installed services; the last one is not in the optimization catalog
Services == {"SysMain", "DiagTrack", "Themes"}

OPTIMIZATION_SERVICES ==
    {"SysMain", "DiagTrack", "WSearch", "Spooler", "MapsBroker", "Fax",
     "NvContainerLocalSystem", "NvContainerNetworkService",
     "NVDisplay.ContainerLocalSystem", "CrossDeviceService", "wuauserv",
     "bits", "dosvc"}

Schemes == {"balanced", "high", "ultimate"}

GameModeOptions ==
    [suspend_explorer : BOOLEAN, suspend_browsers : BOOLEAN,
     suspend_launchers : BOOLEAN, isolate_network : BOOLEAN]

VARIABLES
    \* ---- operating system ----
    reg,            \* registry value name -> DWORD or Absent
    netbios,        \* interface -> NetbiosOptions DWORD or Absent
    svcRunning,     \* set of running services
    alive,          \* set of live pids
    suspCount,      \* pid -> suspend count
    pendingKill,    \* image names of taskkill commands spawned and not yet run
    activeScheme,   \* active power scheme
    schemeVals,     \* scheme -> [boost, minp]
    ultimateExists, \* the ultimate-performance scheme is listed by powercfg
    IS_DESKTOP,     \* the OnceLock of GameDetector::is_desktop: [set, value]
    chassis,        \* wmic reports a desktop chassis type at this moment
    windows,        \* pid -> bounds of its first visible top-level window, or NoWindow
    \* ---- GameModeService ----
    registry,       \* RegistryService fields
    power,          \* PowerService fields
    suspended_shell_ux_pids,
    stopped_services,
    network_isolated,
    detected,       \* what the last detect_game call returned
    \* ---- AdvancedModulesService and the machine values it touches ----
    coreParking,    \* [min, max]: CPMINCORES / CPMAXCORES of the current scheme
    autotuning,     \* TCP auto-tuning level
    prio,           \* pid -> priority class
    advanced_modules, \* AdvancedModulesService fields
    advCalls,       \* writes of the last AdvancedModulesService operation
    advHist,        \* history of the AdvancedModulesService operations
    \* ---- ReviTweaksService ----
    svcStart,       \* service -> startup type (the Start value of its key)
    revi,           \* ORIGINAL_STATE
    \* ---- the application (main.rs) ----
    app_settings,   \* the shared AppSettings
    settings_file,  \* the settings as last saved
    auto_launch,    \* the auto-launch entry is enabled
    monitored_pid,  \* AtomicU32
    is_monitoring,  \* AtomicBool
    is_game_mode_active, \* AtomicBool
    service_lock,   \* 0, or the thread holding the GameModeService mutex
    workers,        \* the threads spawned by on_toggle_game_mode
    monitor,        \* the monitor thread: position and locals
    exited,         \* the process has exited
    app,            \* history of the application
    \* ---- observation of calls (history variables) ----
    calls,          \* OS calls issued by the last orchestrator operation
    hist,           \* what the operations since construction were
    env             \* number of environment changes so far

osVars ==
    <<reg, netbios, svcRunning, alive, suspCount, pendingKill, activeScheme,
      schemeVals, ultimateExists, IS_DESKTOP, chassis, windows>>
gmVars ==
    <<registry, power, suspended_shell_ux_pids, stopped_services, network_isolated,
      detected>>
advVars == <<coreParking, autotuning, prio, advanced_modules, advCalls, advHist>>
reviVars == <<svcStart, revi>>
appVars ==
    <<app_settings, settings_file, auto_launch, monitored_pid, is_monitoring,
      is_game_mode_active, service_lock, workers, monitor, exited, app>>
\* what AdvancedModulesService leaves alone
advFrame ==
    <<netbios, svcRunning, alive, suspCount, pendingKill, activeScheme, schemeVals,
      ultimateExists, IS_DESKTOP, chassis, windows, gmVars, reviVars, calls, hist>>
vars == <<osVars, gmVars, advVars, reviVars, appVars, calls, hist, env>>


(***************************************************************************)
(* Helpers.                                                                *)
(***************************************************************************)
RECURSIVE SeqOfSet(_)
\* the elements of a finite set as a sequence (a fixed enumeration order)
SeqOfSet(S) ==
    IF S = {} THEN <<>>
    ELSE LET x == CHOOSE y \in S : TRUE IN <<x>> \o SeqOfSet(S \ {x})

RECURSIVE SeqOfPids(_)
\* pids in snapshot order (ascending pid)
SeqOfPids(S) ==
    IF S = {} THEN <<>>
    ELSE LET x == CHOOSE y \in S : \A z \in S : y <= z
         IN <<x>> \o SeqOfPids(S \ {x})

Range(q) == {q[i] : i \in 1..Len(q)}

\* a pid's image name matches one of the target names, ignoring ASCII case
Matches(pid, targets) == \E t \in targets : eq_ignore_ascii_case(t, PidName[pid])

(***************************************************************************)
(* Faults: which OS calls of one operation fail.                           *)
(***************************************************************************)
NoFault ==
    [stopFail |-> {}, openFail |-> {}, powerGet |-> TRUE, setUltimate |-> TRUE,
     dupOk |-> FALSE, panicked |-> {}]

\* one failing call of the service manager or of OpenProcess
ServiceFaults == {[NoFault EXCEPT !.stopFail = {s}] : s \in Services}

ProcessFaults == {[NoFault EXCEPT !.openFail = {p}] : p \in Pids}

\* one failing power call; dupOk is the outcome of powercfg -duplicatescheme
PowerFaults ==
    {[NoFault EXCEPT !.powerGet = FALSE],
     [NoFault EXCEPT !.setUltimate = FALSE],
     [NoFault EXCEPT !.dupOk = TRUE]}

\* one worker thread of the operation panics, so that its join returns Err
PanicFaults ==
    {[NoFault EXCEPT !.panicked = {t}] :
        t \in {"stop_optimization_services", "flush_memory", "restore_services"}}

(***************************************************************************)
(* RegistryService (registry.rs).  r is the registry, self the service's   *)
(* fields.                                                                 *)
(***************************************************************************)
read_dword(r, name) == r[name]

set_dword(r, name, data) == [r EXCEPT ![name] = data]

RegistryService_new ==
    [original_win32_priority_separation |-> None,
     original_auto_game_mode_enabled |-> None,
     original_priority |-> None,
     original_gpu_priority |-> None,
     original_auto_restart_shell |-> None]

apply_tweaks(r, self) ==
    LET r1 == set_dword(r, "Win32PrioritySeparation", Win32PrioritySeparationTweak)
        r2 == set_dword(set_dword(r1, "AutoGameModeEnabled", 1), "AllowAutoGameMode", 1)
        r3 == set_dword(set_dword(r2, "Priority", GamesPriorityTweak),
                        "GPU Priority", GamesGpuPriorityTweak)
    IN [reg |-> r3,
        self |-> [self EXCEPT
            !.original_win32_priority_separation = read_dword(r, "Win32PrioritySeparation"),
            !.original_auto_game_mode_enabled = read_dword(r1, "AutoGameModeEnabled"),
            !.original_priority = read_dword(r2, "Priority"),
            !.original_gpu_priority = read_dword(r2, "GPU Priority")]]

unlock_power_settings(r) == set_dword(r, "Attributes", AttributesUnlocked)

\* the slots whose captured value revert_tweaks writes back
revert_tweaks_slots(self) ==
    {k \in {"original_win32_priority_separation", "original_auto_game_mode_enabled",
            "original_priority", "original_gpu_priority"} : self[k] # None}

revert_tweaks(r, self) ==
    LET r1 == IF self.original_win32_priority_separation # None
              THEN set_dword(r, "Win32PrioritySeparation",
                             self.original_win32_priority_separation)
              ELSE r
        r2 == IF self.original_auto_game_mode_enabled # None
              THEN set_dword(r1, "AutoGameModeEnabled", self.original_auto_game_mode_enabled)
              ELSE r1
        r3 == IF self.original_priority # None
              THEN set_dword(r2, "Priority", self.original_priority)
              ELSE r2
        r4 == IF self.original_gpu_priority # None
              THEN set_dword(r3, "GPU Priority", self.original_gpu_priority)
              ELSE r3
    IN r4

disable_auto_restart_shell(r, self) ==
    [reg |-> set_dword(r, "AutoRestartShell", 0),
     self |-> [self EXCEPT !.original_auto_restart_shell = read_dword(r, "AutoRestartShell")]]

enable_auto_restart_shell(r, self) ==
    LET value == IF self.original_auto_restart_shell # None
                 THEN self.original_auto_restart_shell
                 ELSE AutoRestartShellDefault
    IN set_dword(r, "AutoRestartShell", value)

(***************************************************************************)
(* NetworkService (network.rs).  nb is the per-interface NetbiosOptions.   *)
(***************************************************************************)
disable_multicast(r) == set_dword(r, "EnableMulticast", 0)

enable_multicast(r) == [r EXCEPT !["EnableMulticast"] = Absent]

set_netbios_option(nb, value) == [i \in DOMAIN nb |-> value]

toggle_isolation(r, nb, enable) ==
    IF enable
    THEN [reg |-> disable_multicast(r), netbios |-> set_netbios_option(nb, NetbiosDisable)]
    ELSE [reg |-> enable_multicast(r), netbios |-> set_netbios_option(nb, NetbiosDefault)]


(***************************************************************************)
(* PowerService (power.rs).  act is the active scheme, sv the per-scheme   *)
(* values, f the faults of the call.                                       *)
(***************************************************************************)
NoScheme == "none"

\* new(): the active scheme at construction is stored as original_scheme
PowerService_new(act) ==
    [original_scheme |-> act,
     original_boost_mode |-> None,
     original_min_processor |-> None,
     laptop_active_scheme |-> NoScheme]

\* variant: no fall back to the high-performance scheme when activating the
\* ultimate-performance scheme fails
set_high_performance_no_fallback(act, ult, self, f) ==
    LET ultNow == ult \/ f.dupOk
    IN [activeScheme |-> IF ~ultNow THEN "high"
                         ELSE IF f.setUltimate THEN "ultimate" ELSE act,
        ultimateExists |-> ultNow,
        self |-> IF f.powerGet THEN [self EXCEPT !.original_scheme = act] ELSE self,
        captured |-> IF f.powerGet THEN {"original_scheme"} ELSE {},
        duplicated |-> IF ult THEN 0 ELSE 1]

\* ult is what powercfg /list shows at the first check; duplicated counts
\* the powercfg -duplicatescheme runs, after which the list is read again
set_high_performance(act, ult, self, f) ==
    LET self1 == IF f.powerGet THEN [self EXCEPT !.original_scheme = act] ELSE self
        ultimate_exists == ult
        ultimate_exists_now == ult \/ f.dupOk
        target == IF ultimate_exists
                  THEN IF f.setUltimate THEN "ultimate" ELSE "high"
                  ELSE IF ultimate_exists_now
                       THEN IF f.setUltimate THEN "ultimate" ELSE "high"
                       ELSE "high"
    IN [activeScheme |-> target,
        ultimateExists |-> IF ultimate_exists THEN ult ELSE ultimate_exists_now,
        self |-> self1,
        captured |-> IF f.powerGet THEN {"original_scheme"} ELSE {},
        duplicated |-> IF ultimate_exists THEN 0 ELSE 1]

optimize_laptop_boost(act, sv, self, f) ==
    IF ~f.powerGet
    THEN [schemeVals |-> sv, self |-> self, captured |-> {}]
    ELSE [schemeVals |-> [sv EXCEPT ![act] = [boost |-> BoostAggressive,
                                                minp |-> MinProcessorFull]],
          self |-> [self EXCEPT !.laptop_active_scheme = act,
                                !.original_boost_mode = sv[act].boost,
                                !.original_min_processor = sv[act].minp],
          captured |-> {"laptop_active_scheme", "original_boost_mode",
                        "original_min_processor"}]

revert_power_plan(act, self) ==
    IF self.original_scheme # NoScheme THEN self.original_scheme ELSE act

\* the slots whose captured value the power revert writes back
revert_power_slots(desktop, self) ==
    IF desktop
    THEN IF self.original_scheme # NoScheme THEN {"original_scheme"} ELSE {}
    ELSE IF self.laptop_active_scheme = NoScheme THEN {}
         ELSE {"laptop_active_scheme"}
              \cup (IF self.original_boost_mode # None THEN {"original_boost_mode"} ELSE {})
              \cup (IF self.original_min_processor # None
                    THEN {"original_min_processor"} ELSE {})

revert_laptop_boost(act, sv, self) ==
    IF self.laptop_active_scheme = NoScheme
    THEN [activeScheme |-> act, schemeVals |-> sv]
    ELSE LET s == self.laptop_active_scheme
             b == IF self.original_boost_mode # None
                  THEN self.original_boost_mode ELSE sv[s].boost
             m == IF self.original_min_processor # None
                  THEN self.original_min_processor ELSE sv[s].minp
         IN [activeScheme |-> s,
             schemeVals |-> [sv EXCEPT ![s] = [boost |-> b, minp |-> m]]]

(***************************************************************************)
(* WindowsServiceManager (windows.rs).  run is the set of running services.*)
(***************************************************************************)
\* variant: the stop control is sent whatever the queried state is
stop_single_service_any_state(run, name, f) ==
    name \in Services /\ name \notin f.stopFail

\* OpenServiceW succeeds, the queried state is SERVICE_RUNNING and
\* ControlService succeeds
stop_single_service(run, name, f) ==
    name \in Services /\ name \in run /\ name \notin f.stopFail

RECURSIVE stop_threads(_, _, _)
\* the scoped threads, one per name: each pushes its name when
\* stop_single_service returns true.  The pushes are taken in the order of
\* names; the order the scheduler gives them is not read by any caller.
stop_threads(names, run, f) ==
    IF names = <<>> THEN <<>>
    ELSE (IF stop_single_service(run, Head(names), f) THEN <<Head(names)>> ELSE <<>>)
         \o stop_threads(Tail(names), run, f)

\* stop_optimization_services: the Vec the threads have filled
stop_optimization_services(run, f) ==
    stop_threads(SeqOfSet(OPTIMIZATION_SERVICES), run, f)

\* the services start_single_service opens and queries
restore_services_queried(service_names) == Range(service_names) \cap Services

\* variant: StartServiceW is issued without looking at the queried state
restore_services_started_any_state(run, service_names) ==
    restore_services_queried(service_names)

\* the services StartServiceW is issued to
restore_services_started(run, service_names) ==
    {name \in restore_services_queried(service_names) : name \notin run}

\* StartServiceW fails for a service whose startup type is 4 (disabled)
restore_services(run, st, service_names) ==
    run \cup {name \in restore_services_started(run, service_names) : st[name] # 4}

(***************************************************************************)
(* ProcessService (process.rs).  live is the set of live pids, sc the      *)
(* suspend counts.                                                         *)
(***************************************************************************)
\* bound of a process's suspend count (MAXIMUM_SUSPEND_COUNT of the OS)
MaxSuspend == 2

NtSuspendProcess(sc, pid) ==
    IF sc[pid] < MaxSuspend THEN [sc EXCEPT ![pid] = @ + 1] ELSE sc

NtResumeProcess(sc, pid) ==
    IF sc[pid] > 0 THEN [sc EXCEPT ![pid] = @ - 1] ELSE sc

RECURSIVE SuspendAll(_, _)
\* NtSuspendProcess issued to each pid of the sequence, in order
SuspendAll(sc, pids) ==
    IF pids = <<>> THEN sc ELSE SuspendAll(NtSuspendProcess(sc, Head(pids)), Tail(pids))

RECURSIVE ResumeAll(_, _)
\* NtResumeProcess issued to each pid of the sequence, in order
ResumeAll(sc, pids) ==
    IF pids = <<>> THEN sc ELSE ResumeAll(NtResumeProcess(sc, Head(pids)), Tail(pids))

\* the pids suspend_processes opens (and pushes to its result)
suspend_processes_pids(live, target_names, f) ==
    SeqOfPids({p \in live : Matches(p, target_names) /\ p \notin f.openFail})

suspend_processes(live, sc, target_names, f) ==
    LET pids == suspend_processes_pids(live, target_names, f)
    IN [suspCount |-> SuspendAll(sc, pids), pids |-> pids]

\* the pids resume_processes issues NtResumeProcess to
resume_processes_pids(live, target_names, f) ==
    SeqOfPids({p \in live : Matches(p, target_names) /\ p \notin f.openFail})

\* the pids resume_processes_by_pid issues NtResumeProcess to (in order)
resume_processes_by_pid_pids(live, pids, f) ==
    SelectSeq(pids, LAMBDA p : p \in live /\ p \notin f.openFail)

\* image names of the model's processes that a taskkill of target_names names
kill_processes(target_names) ==
    {PidName[p] : p \in {q \in Pids : Matches(q, target_names)}}

restart_explorer(live) ==
    IF \E p \in live : eq_ignore_ascii_case(PidName[p], "explorer")
    THEN live
    ELSE live \cup {p \in Pids : PidName[p] = "explorer"}


(***************************************************************************)
(* GameDetector (detector.rs).  windows gives, per pid, the bounds of the  *)
(* first visible top-level window EnumWindows reports for it; the screen   *)
(* is screen_w by screen_h.  The snapshot lists the live processes in      *)
(* ascending pid order.                                                    *)
(***************************************************************************)
KNOWN_GAMES ==
    {"cod", "cod24-cod", "FortniteClient-Win64-Shipping", "r5apex", "cs2", "valheim",
     "dota2", "League of Legends", "Overwatch", "Valorant-Win64-Shipping", "GTA5",
     "RDR2", "Cyberpunk2077", "Minecraft.Windows"}

EXCLUDED_PROCESSES == {"explorer", "SearchApp", "LockApp", "SearchHost"}

\* GetSystemMetrics(SM_CXSCREEN), GetSystemMetrics(SM_CYSCREEN)
screen_w == MaxDim - 1
screen_h == MaxDim - 1

\* no visible top-level window
NoWindow == [visible |-> FALSE, width |-> 0, height |-> 0]

\* the window bounds the model considers: one below, at and one above the screen
WindowSizes == (MaxDim - 2)..MaxDim
VisibleWindows == [visible : {TRUE}, width : WindowSizes, height : WindowSizes]

\* a browser window covering the screen, a game in a window
DefaultWindows ==
    [p \in Pids |->
        CASE p = 12 -> [visible |-> TRUE, width |-> screen_w, height |-> screen_h]
          [] p = 40 -> [visible |-> TRUE, width |-> screen_w - 1, height |-> screen_h - 1]
          [] OTHER -> NoWindow]

\* get_main_window: the first visible window of pid (NoWindow for None)
get_main_window(pid) == windows[pid]

\* variant: the fullscreen test with a strict comparison
exceeds_screen(rect) == rect.width > screen_w /\ rect.height > screen_h

\* the fullscreen test on the bounds GetWindowRect returns
covers_screen(rect) == rect.width >= screen_w /\ rect.height >= screen_h

\* variant: a known game is taken only when its window covers the screen
qualifies_by_size(pid) ==
    /\ pid # current_pid
    /\ ~Matches(pid, EXCLUDED_PROCESSES)
    /\ get_main_window(pid).visible
    /\ covers_screen(get_main_window(pid))

\* one iteration of the loop: whether it breaks with pid as the result
qualifies(pid) ==
    /\ pid # current_pid
    /\ ~Matches(pid, EXCLUDED_PROCESSES)
    /\ get_main_window(pid).visible
    /\ (Matches(pid, KNOWN_GAMES) \/ covers_screen(get_main_window(pid)))

RECURSIVE first_match(_)
\* the loop over the snapshot entries: the first pid it breaks at, 0 for None
first_match(snapshot) ==
    IF snapshot = <<>> THEN 0
    ELSE IF qualifies(Head(snapshot)) THEN Head(snapshot)
    ELSE first_match(Tail(snapshot))

\* variant: known games are looked for first in the whole snapshot
detect_known_game_first(live) ==
    LET games == {p \in live : qualifies(p) /\ Matches(p, KNOWN_GAMES)}
    IN IF games # {} THEN Head(SeqOfPids(games)) ELSE first_match(SeqOfPids(live))

\* detect_fullscreen_game on the snapshot of the live processes
detect_fullscreen_game(live) == first_match(SeqOfPids(live))

\* variant: the chassis is queried at every call
is_desktop_uncached == chassis

\* is_desktop(): the cached value, and at the first call what wmic reports
is_desktop == IF IS_DESKTOP.set THEN IS_DESKTOP.value ELSE chassis

\* the OnceLock after a call of is_desktop()
get_or_init == [set |-> TRUE, value |-> is_desktop]

NoDetection == [called |-> FALSE, pid |-> 0]


(***************************************************************************)
(* GameModeService (gamemode.rs).                                          *)
(***************************************************************************)
BLOATWARE ==
    {"smartscreen", "Microsoft.Windows.SmartScreen", "Cortana", "PhoneExperienceHost",
     "CrossDeviceResume", "CrossDeviceService", "Widgets", "WidgetService",
     "Mousocoreworker", "Microsoft.Media.Player", "OneDrive", "Dropbox",
     "GoogleDriveFS", "Teams", "Skype", "GameBar", "GameBarPresenceWriter",
     "YourPhone", "nvcontainer", "NVDisplay.Container", "NVIDIA Share",
     "NVIDIA Web Helper", "NVIDIA Overlay"}

PERIPHERALS ==
    {"iCue", "lghub_agent", "Razer Synapse Service", "ArmouryCrate.Service",
     "Razer Central", "Razer Synapse 3", "LGHUB", "Lghub_updater"}

\* the kill list built by enable_game_mode
all_to_kill(options) ==
    START_MENU_REPLACEMENTS
    \cup (IF options.suspend_browsers THEN BROWSERS ELSE {})
    \cup BLOATWARE \cup PERIPHERALS
    \cup (IF options.suspend_launchers THEN LAUNCHERS ELSE {})

NoOptions ==
    [suspend_explorer |-> FALSE, suspend_browsers |-> FALSE,
     suspend_launchers |-> FALSE, isolate_network |-> FALSE]

PreNone ==
    [reg |-> [k \in RegKeys |-> Absent], netbios |-> [i \in Interfaces |-> Absent]]

\* the power step of an operation: the branch taken, what the first check
\* and the re-check of the ultimate-performance scheme found, the number of
\* duplication runs, whether activating the ultimate scheme succeeded, and
\* the scheme active afterwards
NoPowerCall ==
    [desktop |-> FALSE, ultFirst |-> FALSE, ultRecheck |-> FALSE, dup |-> 0,
     setUltimate |-> TRUE, scheme |-> NoScheme]

NoCalls ==
    [op |-> "none", stopped |-> {}, startQueried |-> {}, started |-> {},
     resumedByPid |-> {}, resumedByName |-> {}, netEnable |-> 0, netRevert |-> 0,
     writeBack |-> {}, steps |-> <<>>,
     returned |-> <<>>, running |-> {}, stopFailed |-> {},
     names |-> {}, pushed |-> {}, suspendOk |-> {}, power |-> NoPowerCall,
     planned |-> <<>>, failed |-> {}]

\* the steps of an operation, in the order its thread takes them: a call that
\* returns when its work is done, a taskkill issued, a thread spawned, a
\* thread joined
Call(name) == [kind |-> "call", name |-> name]
Kill(name) == [kind |-> "kill", name |-> name]
SpawnThread(name) == [kind |-> "spawn", name |-> name]
JoinThread(name) == [kind |-> "join", name |-> name]

\* variant: the join loop stops after the handles that are always pushed
join_first_two(handles) ==
    [i \in 1..(IF Len(handles) < 2 THEN Len(handles) ELSE 2) |-> JoinThread(handles[i])]

\* for handle in handles { handle.join() }
join_handles(handles) == [i \in 1..Len(handles) |-> JoinThread(handles[i])]

\* variant: the explorer handling runs before the registry and power steps
enable_steps_kill_first(options, desktop, detected_game) ==
    (IF options.suspend_explorer
     THEN <<Call("detect_fullscreen_game"), Kill("START_MENU_REPLACEMENTS"),
            Call("disable_auto_restart_shell"), Kill("explorer")>>
          \o (IF detected_game # 0 THEN <<Call("focus_window")>> ELSE <<>>)
     ELSE <<>>)
    \o <<Call("unlock_power_settings"), Call("apply_tweaks"),
          Call(IF desktop THEN "set_high_performance" ELSE "optimize_laptop_boost")>>
    \o <<Call("suspend_processes"), Kill("all_to_kill")>>

\* the steps of enable_game_mode
enable_steps(options, desktop, detected_game) ==
    LET handles == <<"stop_optimization_services", "flush_memory">>
                   \o (IF options.isolate_network THEN <<"toggle_isolation">> ELSE <<>>)
    IN (IF options.suspend_explorer THEN <<Call("detect_fullscreen_game")>> ELSE <<>>)
       \o <<Call("unlock_power_settings"), Call("apply_tweaks"),
             Call(IF desktop THEN "set_high_performance" ELSE "optimize_laptop_boost")>>
       \o (IF options.suspend_explorer
           THEN <<Kill("START_MENU_REPLACEMENTS"), Call("disable_auto_restart_shell"),
                  Kill("explorer")>>
                \o (IF detected_game # 0 THEN <<Call("focus_window")>> ELSE <<>>)
           ELSE <<>>)
       \o [i \in 1..Len(handles) |-> SpawnThread(handles[i])]
       \o <<Call("suspend_processes"), Kill("all_to_kill")>>
       \o join_handles(handles)

\* the steps of disable_game_mode
disable_steps(options, desktop, revertNet) ==
    LET handles == (IF options.suspend_explorer THEN <<"restart_explorer">> ELSE <<>>)
                   \o <<"restore_services", "resume_processes">>
                   \o (IF revertNet THEN <<"toggle_isolation">> ELSE <<>>)
    IN [i \in 1..Len(handles) |-> SpawnThread(handles[i])]
       \o <<Call("revert_tweaks"), Call("enable_auto_restart_shell"),
             Call(IF desktop THEN "revert_power_plan" ELSE "revert_laptop_boost")>>
       \o join_handles(handles)

\* the steps that fail under the faults f; power_step is the power call of
\* the operation
failed_steps(f, power_step) ==
    (IF ~f.powerGet \/ ~f.setUltimate THEN {Call(power_step)} ELSE {})
    \cup (IF f.openFail # {} THEN {Call("suspend_processes")} ELSE {})
    \cup {JoinThread(t) : t \in f.panicked}

\* variant: the operation returns at the first step that fails
run_until_failure(steps, failed) ==
    IF \E i \in 1..Len(steps) : steps[i] \in failed
    THEN SubSeq(steps, 1, CHOOSE i \in 1..Len(steps) :
                              /\ steps[i] \in failed
                              /\ \A j \in 1..(i - 1) : steps[j] \notin failed)
    ELSE steps

\* the steps the operation runs when the steps in failed fail: no provider
\* call returns a result, and the Err of a join is dropped, so the next
\* step runs whatever the outcome of the one before
run_steps(steps, failed) ==
    [i \in 1..Len(steps) |-> steps[i]]

\* the result of handle.join() that the join loop of enable_game_mode merges
joined_result(name, result, f) == IF name \in f.panicked THEN <<>> ELSE result

\* registry values and interfaces that enable_game_mode(options) writes
WrittenKeys(options) ==
    {"Win32PrioritySeparation", "AutoGameModeEnabled", "AllowAutoGameMode",
     "Priority", "GPU Priority", "Attributes"}
    \cup (IF options.suspend_explorer THEN {"AutoRestartShell"} ELSE {})
    \cup (IF options.isolate_network THEN {"EnableMulticast"} ELSE {})

\* network_isolated after enable_game_mode's network step
enable_network_isolated(isolated, options) ==
    IF options.isolate_network THEN TRUE ELSE isolated

\* stopped_services after the join loop of enable_game_mode
merge_stopped(stopped, result) == stopped \o result

enable_game_mode(options, f) ==
    LET detected_game == IF options.suspend_explorer
                         THEN detect_fullscreen_game(alive) ELSE 0
        r1 == unlock_power_settings(reg)
        t == apply_tweaks(r1, registry)
        pw == IF is_desktop
              THEN set_high_performance(activeScheme, ultimateExists, power, f)
              ELSE [activeScheme |-> activeScheme, ultimateExists |-> ultimateExists,
                    duplicated |-> 0]
                   @@ optimize_laptop_boost(activeScheme, schemeVals, power, f)
        sv == IF is_desktop THEN schemeVals ELSE pw.schemeVals
        ars == IF options.suspend_explorer
               THEN disable_auto_restart_shell(t.reg, t.self)
               ELSE t
        kill1 == IF options.suspend_explorer
                 THEN kill_processes(START_MENU_REPLACEMENTS) \cup kill_processes({"explorer"})
                 ELSE {}
        stopped == stop_optimization_services(svcRunning, f)
        result == Range(stopped)
        net == IF options.isolate_network
               THEN toggle_isolation(ars.reg, netbios, TRUE)
               ELSE [reg |-> ars.reg, netbios |-> netbios]
        susp == suspend_processes(alive, suspCount, SHELL_UX, f)
        captured == {"original_win32_priority_separation",
                     "original_auto_game_mode_enabled", "original_priority",
                     "original_gpu_priority"}
                    \cup (IF options.suspend_explorer
                          THEN {"original_auto_restart_shell"} ELSE {})
                    \cup pw.captured
    IN /\ reg' = net.reg
       /\ netbios' = net.netbios
       /\ registry' = ars.self
       /\ activeScheme' = pw.activeScheme
       /\ ultimateExists' = pw.ultimateExists
       /\ schemeVals' = sv
       /\ power' = pw.self
       /\ svcRunning' = svcRunning \ result
       /\ network_isolated' = enable_network_isolated(network_isolated, options)
       /\ suspCount' = susp.suspCount
       /\ pendingKill' = pendingKill \cup kill1 \cup kill_processes(all_to_kill(options))
       /\ suspended_shell_ux_pids' = susp.pids
       /\ stopped_services' =
              merge_stopped(stopped_services,
                            joined_result("stop_optimization_services", stopped, f))
       /\ calls' = [NoCalls EXCEPT !.op = "enable", !.stopped = result,
                       !.netEnable = IF options.isolate_network THEN 1 ELSE 0,
                       !.returned = stopped, !.running = svcRunning,
                       !.pushed = Range(susp.pids),
                       !.suspendOk = {p \in Range(susp.pids) : suspCount[p] < MaxSuspend},
                       !.stopFailed = f.stopFail,
                       !.power = [desktop |-> is_desktop,
                                  ultFirst |-> ultimateExists,
                                  ultRecheck |-> is_desktop /\ pw.duplicated = 1
                                                 /\ pw.ultimateExists,
                                  dup |-> IF is_desktop THEN pw.duplicated ELSE 0,
                                  setUltimate |-> f.setUltimate,
                                  scheme |-> pw.activeScheme],
                       !.planned = enable_steps(options, is_desktop, detected_game),
                       !.failed = failed_steps(f, IF is_desktop THEN "set_high_performance"
                                                  ELSE "optimize_laptop_boost"),
                       !.steps = run_steps(enable_steps(options, is_desktop, detected_game),
                                           failed_steps(f, IF is_desktop
                                                           THEN "set_high_performance"
                                                           ELSE "optimize_laptop_boost"))]
       /\ hist' = [hist EXCEPT
                       !.lastOp = "enable", !.ops = hist.ops + 1,
                       !.everEnabled = TRUE, !.recEnabled = TRUE,
                       !.disExplorer = FALSE, !.disEnv = 0, !.disPending = {},
                       !.idem = FALSE, !.idemChanged = {},
                       !.pre = [reg |-> reg, netbios |-> netbios],
                       !.enOpts = options,
                       !.clean = (f = NoFault),
                       !.recStopped = hist.recStopped \cup result,
                       !.recSuspended = Range(susp.pids),
                       !.anyIsolate = hist.anyIsolate \/ options.isolate_network,
                       !.fresh = captured,
                       !.enDesktop = is_desktop,
                       !.wmicRuns = hist.wmicRuns + (IF IS_DESKTOP.set THEN 0 ELSE 1)]
       /\ env' = IF f = NoFault THEN env ELSE env + 1
       /\ IS_DESKTOP' = get_or_init
       /\ UNCHANGED <<alive, chassis, windows, advVars, reviVars>>

\* variant: disable_game_mode hands the installed catalog to restore_services
restore_whole_catalog(stopped) == SeqOfSet(OPTIMIZATION_SERVICES \cap Services)

\* the services disable_game_mode hands to restore_services
services_to_restore(stopped) == stopped

\* variant: the network revert is also gated by the options passed to disable
was_isolated_or_asked(isolated, options) == isolated \/ options.isolate_network

\* whether disable_game_mode spawns the network revert thread
was_isolated(isolated, options) == isolated

\* variant: the recorded list is left as it is
clear_skipped(list) == list

\* guard.clear()
clear(list) == <<>>

disable_game_mode(options, f) ==
    LET live1 == IF options.suspend_explorer THEN restart_explorer(alive) ELSE alive
        names == services_to_restore(stopped_services)
        byPid == resume_processes_by_pid_pids(alive, suspended_shell_ux_pids, f)
        byName == resume_processes_pids(alive, SHELL_UX, f)
        revertNet == was_isolated(network_isolated, options)
        net == IF revertNet
               THEN toggle_isolation(reg, netbios, FALSE)
               ELSE [reg |-> reg, netbios |-> netbios]
        r1 == revert_tweaks(net.reg, registry)
        r2 == enable_auto_restart_shell(r1, registry)
        pw == IF is_desktop
              THEN [activeScheme |-> revert_power_plan(activeScheme, power),
                    schemeVals |-> schemeVals]
              ELSE revert_laptop_boost(activeScheme, schemeVals, power)
        wb == revert_tweaks_slots(registry)
              \cup (IF registry.original_auto_restart_shell # None
                    THEN {"original_auto_restart_shell"} ELSE {})
              \cup revert_power_slots(is_desktop, power)
    IN /\ alive' = live1
       /\ svcRunning' = restore_services(svcRunning, svcStart, names)
       /\ suspCount' = ResumeAll(ResumeAll(suspCount, byPid), byName)
       /\ reg' = r2
       /\ netbios' = net.netbios
       /\ activeScheme' = pw.activeScheme
       /\ schemeVals' = pw.schemeVals
       /\ suspended_shell_ux_pids' = clear(suspended_shell_ux_pids)
       /\ stopped_services' = clear(stopped_services)
       /\ network_isolated' = FALSE
       /\ calls' = [NoCalls EXCEPT !.op = "disable",
                       !.startQueried = restore_services_queried(names),
                       !.started = restore_services_started(svcRunning, names),
                       !.resumedByPid = Range(byPid),
                       !.resumedByName = Range(byName),
                       !.netRevert = IF revertNet THEN 1 ELSE 0,
                       !.writeBack = wb,
                       !.names = Range(names), !.running = svcRunning,
                       !.power = [NoPowerCall EXCEPT !.desktop = is_desktop,
                                                     !.scheme = pw.activeScheme],
                       !.planned = disable_steps(options, is_desktop, revertNet),
                       !.failed = failed_steps(f, IF is_desktop THEN "revert_power_plan"
                                                  ELSE "revert_laptop_boost"),
                       !.steps = run_steps(disable_steps(options, is_desktop, revertNet),
                                           failed_steps(f, IF is_desktop
                                                           THEN "revert_power_plan"
                                                           ELSE "revert_laptop_boost"))]
       /\ hist' = [hist EXCEPT
                       !.lastOp = "disable", !.ops = hist.ops + 1,
                       !.roundtrip = /\ hist.lastOp = "enable"
                                     /\ hist.clean
                                     /\ f = NoFault
                                     /\ options = hist.enOpts,
                       !.changed = {k \in WrittenKeys(hist.enOpts) : r2[k] # hist.pre.reg[k]},
                       !.changedNetbios =
                           IF hist.enOpts.isolate_network
                           THEN {i \in Interfaces : net.netbios[i] # hist.pre.netbios[i]}
                           ELSE {},
                       !.pre = PreNone, !.enOpts = NoOptions, !.clean = FALSE,
                       !.revStopped = hist.recStopped, !.recStopped = {},
                       !.revSuspended = hist.recSuspended, !.recSuspended = {},
                       !.revLastIsolate = hist.enOpts.isolate_network,
                       !.revAnyIsolate = hist.anyIsolate, !.anyIsolate = FALSE,
                       !.revFresh = hist.fresh, !.fresh = {},
                       !.revDesktop = hist.enDesktop,
                       !.disExplorer = options.suspend_explorer,
                       !.disEnv = IF f = NoFault THEN env ELSE -1,
                       !.disPending = pendingKill,
                       !.idem = /\ hist.lastOp = "disable"
                                /\ options.suspend_explorer = hist.disExplorer
                                /\ env = hist.disEnv
                                /\ pendingKill = hist.disPending
                                /\ f = NoFault,
                       !.idemChanged =
                           IF hist.lastOp # "disable" THEN {} ELSE
                           (IF live1 # alive THEN {"processes"} ELSE {})
                           \cup (IF restore_services(svcRunning, svcStart, names) # svcRunning
                                 THEN {"services"} ELSE {})
                           \cup (IF ResumeAll(ResumeAll(suspCount, byPid), byName) # suspCount
                                 THEN {"suspend counts"} ELSE {})
                           \cup (IF r2 # reg THEN {"registry"} ELSE {})
                           \cup (IF net.netbios # netbios THEN {"netbios"} ELSE {})
                           \cup (IF pw.activeScheme # activeScheme \/ pw.schemeVals # schemeVals
                                 THEN {"power"} ELSE {}),
                       !.wmicRuns = hist.wmicRuns + (IF IS_DESKTOP.set THEN 0 ELSE 1),
                       !.revEnabled = hist.recEnabled, !.recEnabled = FALSE]
       /\ env' = IF f = NoFault THEN env ELSE env + 1
       /\ IS_DESKTOP' = get_or_init
       /\ UNCHANGED <<registry, power, pendingKill, ultimateExists, chassis, windows,
                      detected, advVars, reviVars>>


(***************************************************************************)
(* AdvancedModulesService (advanced_modules.rs).  Each module operation    *)
(* works on m: the machine values it can touch (reg, cp, at, pr), the      *)
(* service's fields (self) and the names of the values written so far.     *)
(***************************************************************************)
AdvancedModuleSettingsAll ==
    [disable_core_parking : BOOLEAN, enable_large_pages : BOOLEAN,
     mmcss_priority_boost : BOOLEAN, enable_hags : BOOLEAN,
     process_idle_demotion : BOOLEAN, lower_bufferbloat : BOOLEAN]

\* number of modules switched on in s
FlagCount(s) ==
    Cardinality({n \in DOMAIN s : s[n]})

\* the settings values the model passes to enable and disable
AdvancedModuleSettings == {s \in AdvancedModuleSettingsAll : FlagCount(s) <= MaxFlags}

NoModules ==
    [disable_core_parking |-> FALSE, enable_large_pages |-> FALSE,
     mmcss_priority_boost |-> FALSE, enable_hags |-> FALSE,
     process_idle_demotion |-> FALSE, lower_bufferbloat |-> FALSE]

DEMOTE_PROCESSES ==
    {"SearchIndexer", "SecurityHealthService", "SgrmBroker", "compattelrunner",
     "MsMpEng", "NisSrv", "WmiPrvSE", "spoolsv", "dllhost", "backgroundTaskHost",
     "RuntimeBroker", "ApplicationFrameHost", "SystemSettings", "SettingSyncHost",
     "OneDrive", "GoogleDriveFS", "Dropbox"}

\* TCP auto-tuning levels of netsh
AutotuningLevels == {"normal", "disabled", "restricted"}

PriorityClasses == {"normal", "idle", "high"}

\* failing calls of one AdvancedModulesService::enable: the netsh output has
\* no auto-tuning line, SetPriorityClass (or OpenProcess) fails for a pid
NoAdvFault == [parseFail |-> FALSE, prioFail |-> {}]

AdvFaults ==
    {[NoAdvFault EXCEPT !.parseFail = TRUE]}
    \cup {[NoAdvFault EXCEPT !.prioFail = {p}] : p \in DemotePids}

AdvancedModulesService_new ==
    [original_core_parking_min |-> None,
     original_core_parking_max |-> None,
     original_system_responsiveness |-> None,
     original_no_lazy_mode |-> None,
     large_pages_enabled |-> FALSE,
     original_hags_value |-> None,
     demoted_processes |-> <<>>,
     original_autotuning_level |-> "none"]

read_registry_dword(r, value_name) == r[value_name]

\* set_registry_dword on m, recording the write
set_registry_dword(m, value_name, data) ==
    [m EXCEPT !.reg[value_name] = data, !.writes = @ \cup {value_name}]

disable_core_parking(m) ==
    [m EXCEPT !.self.original_core_parking_min = read_registry_dword(m.reg, "ValueMin"),
              !.self.original_core_parking_max = read_registry_dword(m.reg, "ValueMax"),
              !.cp = [min |-> 100, max |-> 100],
              !.writes = @ \cup {"CPMINCORES", "CPMAXCORES"}]

restore_core_parking(m) ==
    [m EXCEPT !.cp = [min |-> 50, max |-> 100],
              !.writes = @ \cup {"CPMINCORES", "CPMAXCORES"}]

enable_mmcss_boost(m) ==
    LET m1 == [m EXCEPT
                 !.self.original_system_responsiveness =
                     read_registry_dword(m.reg, "SystemResponsiveness"),
                 !.self.original_no_lazy_mode = read_registry_dword(m.reg, "NoLazyMode")]
        m2 == set_registry_dword(m1, "SystemResponsiveness", 0)
        m3 == set_registry_dword(m2, "NoLazyMode", 1)
        m4 == set_registry_dword(m3, "Scheduling Category", 2)
        m5 == set_registry_dword(m4, "SFIO Priority", 2)
        m6 == set_registry_dword(m5, "Background Only", 0)
    IN set_registry_dword(m6, "Clock Rate", 10000)

restore_mmcss(m) ==
    LET original == IF m.self.original_system_responsiveness # None
                    THEN m.self.original_system_responsiveness ELSE 20
        original_lazy == IF m.self.original_no_lazy_mode # None
                         THEN m.self.original_no_lazy_mode ELSE 0
    IN set_registry_dword(set_registry_dword(m, "SystemResponsiveness", original),
                          "NoLazyMode", original_lazy)

enable_large_pages(m) ==
    [set_registry_dword(set_registry_dword(m, "LargeSystemCache", 1),
                        "LargePageMinimum", 1)
        EXCEPT !.self.large_pages_enabled = TRUE]

restore_large_pages(m) ==
    IF ~m.self.large_pages_enabled
    THEN m
    ELSE [set_registry_dword(m, "LargeSystemCache", 0)
             EXCEPT !.self.large_pages_enabled = FALSE]

enable_hags(m) ==
    set_registry_dword(
        [m EXCEPT !.self.original_hags_value = read_registry_dword(m.reg, "HwSchMode")],
        "HwSchMode", 2)

\* restore_hags with the fallback write the other restores have
restore_hags_or_default(m) ==
    set_registry_dword(m, "HwSchMode",
                       IF m.self.original_hags_value # None
                       THEN m.self.original_hags_value ELSE 0)

restore_hags(m) ==
    IF m.self.original_hags_value # None
    THEN set_registry_dword(m, "HwSchMode", m.self.original_hags_value)
    ELSE m

\* the processes whose image name is on the demotion list
DemoteListed == {p \in Pids : Matches(p, DEMOTE_PROCESSES)}

\* the pids for which OpenProcess and SetPriorityClass(IDLE) succeed: the
\* processes on the demotion list other than this process, pid 0 and pid 4
priority_lowered(live, f) ==
    {p \in live \cap DemoteListed : /\ p # current_pid /\ p # 0 /\ p # 4
                                     /\ p \notin f.prioFail}

\* variant: a pid is pushed whenever it is on the demotion list, whether or
\* not its priority was lowered
demoted_pids_attempted(live, f) == SeqOfPids(live \cap DemoteListed)

\* the pids enable_process_demotion pushes to demoted
demoted_pids(live, f) == SeqOfPids(priority_lowered(live, f))

enable_process_demotion(m, live, f) ==
    LET demoted == demoted_pids(live, f)
    IN [m EXCEPT !.pr = [p \in DOMAIN m.pr |->
                            IF p \in priority_lowered(live, f) THEN "idle" ELSE m.pr[p]],
                 !.lowered = priority_lowered(live, f),
                 !.writes = IF demoted = <<>> THEN @ ELSE @ \cup {"priority"},
                 !.self.demoted_processes = demoted]

\* the recorded pids restore_process_priority can still open
restored_pids(live, demoted) == {p \in Range(demoted) : p \in live}

restore_process_priority(m, live) ==
    LET raised == restored_pids(live, m.self.demoted_processes)
    IN [m EXCEPT !.pr = [p \in DOMAIN m.pr |-> IF p \in raised THEN "normal" ELSE m.pr[p]],
                 !.raised = raised,
                 !.writes = IF raised = {} THEN @ ELSE @ \cup {"priority"},
                 !.self.demoted_processes = <<>>]

enable_lower_bufferbloat(m, f) ==
    [m EXCEPT !.self.original_autotuning_level = IF f.parseFail THEN @ ELSE m.at,
              !.at = "disabled",
              !.writes = @ \cup {"autotuninglevel"}]

restore_bufferbloat(m) ==
    [m EXCEPT !.at = IF m.self.original_autotuning_level # "none"
                     THEN m.self.original_autotuning_level ELSE "normal",
              !.writes = @ \cup {"autotuninglevel"}]

\* the values AdvancedModulesService::enable(settings) writes
AdvWritten(settings) ==
    (IF settings.disable_core_parking THEN {"CPMINCORES", "CPMAXCORES"} ELSE {})
    \cup (IF settings.mmcss_priority_boost
          THEN {"SystemResponsiveness", "NoLazyMode", "Scheduling Category",
                "SFIO Priority", "Background Only", "Clock Rate"}
          ELSE {})
    \cup (IF settings.enable_large_pages
          THEN {"LargeSystemCache", "LargePageMinimum"} ELSE {})
    \cup (IF settings.enable_hags THEN {"HwSchMode"} ELSE {})
    \cup (IF settings.process_idle_demotion THEN {"priority"} ELSE {})
    \cup (IF settings.lower_bufferbloat THEN {"autotuninglevel"} ELSE {})

\* the machine values and fields the modules work on, nothing written yet
Machine ==
    [reg |-> reg, cp |-> coreParking, at |-> autotuning, pr |-> prio,
     self |-> advanced_modules, writes |-> {}, lowered |-> {}, raised |-> {}]

\* the value called name in a machine snapshot
AdvValue(m, name) ==
    CASE name \in AdvancedKeys -> m.reg[name]
      [] name = "CPMINCORES" -> m.cp.min
      [] name = "CPMAXCORES" -> m.cp.max
      [] name = "autotuninglevel" -> m.at
      [] name = "priority" -> m.pr

NoAdvCalls ==
    [op |-> "none", writes |-> {}, lowered |-> {}, raised |-> {}, level |-> "none"]

AdvPreNone ==
    [reg |-> [k \in AdvancedKeys |-> Absent], cp |-> [min |-> 0, max |-> 0],
     at |-> "none", pr |-> [p \in DemotePids |-> "normal"]]

\* what a snapshot keeps of the machine
Snapshot(m) ==
    [reg |-> [k \in AdvancedKeys |-> m.reg[k]], cp |-> m.cp, at |-> m.at, pr |-> m.pr]

AdvHistInit ==
    [lastOp |-> "none", ops |-> 0, pre |-> AdvPreNone, enSettings |-> NoModules,
     clean |-> FALSE, roundtrip |-> FALSE, changed |-> {},
     hagsFresh |-> FALSE, hagsRan |-> FALSE, captured |-> None,
     restores |-> 0, revDemoted |-> {}, level |-> "none", revLevel |-> "none"]

\* AdvancedModulesService::enable: the selected modules, in the order of the code
enabled_machine(settings, f) ==
    LET m1 == IF settings.disable_core_parking THEN disable_core_parking(Machine) ELSE Machine
        m2 == IF settings.mmcss_priority_boost THEN enable_mmcss_boost(m1) ELSE m1
        m3 == IF settings.enable_large_pages THEN enable_large_pages(m2) ELSE m2
        m4 == IF settings.enable_hags THEN enable_hags(m3) ELSE m3
        m5 == IF settings.process_idle_demotion
              THEN enable_process_demotion(m4, alive, f) ELSE m4
    IN IF settings.lower_bufferbloat THEN enable_lower_bufferbloat(m5, f) ELSE m5

\* AdvancedModulesService::disable: the selected restores, in the order of the code
disabled_machine(settings) ==
    LET m1 == IF settings.disable_core_parking THEN restore_core_parking(Machine) ELSE Machine
        m2 == IF settings.mmcss_priority_boost THEN restore_mmcss(m1) ELSE m1
        m3 == IF settings.enable_large_pages THEN restore_large_pages(m2) ELSE m2
        m4 == IF settings.enable_hags THEN restore_hags(m3) ELSE m3
        m5 == IF settings.process_idle_demotion
              THEN restore_process_priority(m4, alive) ELSE m4
    IN IF settings.lower_bufferbloat THEN restore_bufferbloat(m5) ELSE m5

AdvancedModulesService_enable(settings, f) ==
    LET m == enabled_machine(settings, f)
    IN /\ reg' = m.reg
       /\ coreParking' = m.cp
       /\ autotuning' = m.at
       /\ prio' = m.pr
       /\ advanced_modules' = m.self
       /\ advCalls' = [op |-> "enable", writes |-> m.writes,
                       lowered |-> m.lowered, raised |-> m.raised,
                       level |-> IF settings.lower_bufferbloat THEN m.at ELSE "none"]
       /\ advHist' = [advHist EXCEPT
                         !.lastOp = "enable", !.ops = advHist.ops + 1,
                         !.pre = Snapshot(Machine), !.enSettings = settings,
                         !.clean = (f = NoAdvFault),
                         !.restores = IF settings.process_idle_demotion THEN 0 ELSE @,
                         !.level = IF ~settings.lower_bufferbloat THEN "none"
                                   ELSE IF f.parseFail THEN "failed" ELSE autotuning,
                         !.revLevel = "none", !.revDemoted = {},
                         !.hagsFresh = FALSE, !.hagsRan = FALSE, !.captured = None]
       /\ UNCHANGED advFrame

AdvancedModulesService_disable(settings) ==
    LET m == disabled_machine(settings)
    IN /\ reg' = m.reg
       /\ coreParking' = m.cp
       /\ autotuning' = m.at
       /\ prio' = m.pr
       /\ advanced_modules' = m.self
       /\ advCalls' = [op |-> "disable", writes |-> m.writes,
                       lowered |-> m.lowered, raised |-> m.raised,
                       level |-> IF settings.lower_bufferbloat THEN m.at ELSE "none"]
       /\ advHist' = [advHist EXCEPT
                         !.lastOp = "disable", !.ops = advHist.ops + 1,
                         !.roundtrip = /\ advHist.lastOp = "enable"
                                       /\ advHist.clean
                                       /\ settings = advHist.enSettings,
                         !.changed = {n \in AdvWritten(advHist.enSettings) :
                                        AdvValue(Snapshot(m), n) # AdvValue(advHist.pre, n)},
                         !.pre = AdvPreNone, !.enSettings = NoModules,
                         !.clean = FALSE,
                         !.hagsFresh = /\ advHist.lastOp = "enable"
                                       /\ advHist.enSettings.enable_hags
                                       /\ settings.enable_hags
                                       /\ advHist.pre.reg["HwSchMode"] = Absent,
                         !.hagsRan = settings.enable_hags,
                         !.restores = IF settings.process_idle_demotion
                                      THEN IF @ < 2 THEN @ + 1 ELSE @
                                      ELSE @,
                         !.revDemoted = IF settings.process_idle_demotion
                                        THEN Range(advanced_modules.demoted_processes)
                                        ELSE {},
                         !.revLevel = IF settings.lower_bufferbloat
                                      THEN advHist.level ELSE "none",
                         !.level = "none",
                         !.captured = advanced_modules.original_hags_value]
       /\ UNCHANGED advFrame

(***************************************************************************)
(* ReviTweaksService (revi_tweaks.rs).  state is ORIGINAL_STATE; the       *)
(* operations run under its lock.  Of the tweak table the model keeps the  *)
(* values other providers also write, the values written both as DWORD and *)
(* as string, and one value only this service writes.                      *)
(***************************************************************************)
REGISTRY_TWEAKS ==
    <<[value_name |-> "FolderType", data |-> 0],
      [value_name |-> "Attributes", data |-> 2],
      [value_name |-> "HwSchMode", data |-> 2],
      [value_name |-> "SystemResponsiveness", data |-> 0],
      [value_name |-> "Priority", data |-> 6],
      [value_name |-> "Scheduling Category", data |-> 2],
      [value_name |-> "SFIO Priority", data |-> 3],
      [value_name |-> "PowerThrottlingOff", data |-> 1]>>

\* the string values of apply_string_tweaks: the HashMap key and the data
STRING_TWEAKS ==
    <<[value_name |-> "FolderType", key |-> "FolderType_str", data |-> StrNotSpecified],
      [value_name |-> "Scheduling Category", key |-> "Scheduling Category_str",
       data |-> StrHigh],
      [value_name |-> "SFIO Priority", key |-> "SFIO Priority_str", data |-> StrHigh]>>

SERVICES_TO_DISABLE ==
    {"DiagTrack", "WerSvc", "DPS", "WdiServiceHost", "WdiSystemHost", "PcaSvc",
     "wisvc", "WSearch", "SysMain", "FontCache", "Themes", "TabletInputService",
     "CDPSvc", "CDPUserSvc", "MapsBroker", "lfsvc", "WbioSrvc", "iphlpsvc"}

\* an empty HashMap
EmptyMap == [k \in {} |-> Absent]

OriginalState_default ==
    [registry_values |-> EmptyMap, service_states |-> EmptyMap, applied |-> FALSE]

\* get_registry_dword: a 4-byte query; a string of more than 4 bytes fails
get_registry_dword(r, value_name) ==
    LET v == r[value_name]
    IN CASE v >= 0 -> v
         [] v <= StrOfDword(0) -> DwordOfStr(v)
         [] OTHER -> None

\* get_registry_string: whatever bytes the value holds, read as UTF-16
get_registry_string(r, value_name) ==
    LET v == r[value_name]
    IN IF v >= 0 THEN StrOfDword(v) ELSE v

set_registry_string(r, value_name, data) == [r EXCEPT ![value_name] = data]

delete_registry_value(r, value_name) == [r EXCEPT ![value_name] = Absent]

RECURSIVE apply_dword_tweaks(_, _)
\* the REGISTRY_TWEAKS loop of enable on m = [reg, values], from tweak i on
apply_dword_tweaks(m, i) ==
    IF i > Len(REGISTRY_TWEAKS) THEN m
    ELSE LET tweak == REGISTRY_TWEAKS[i]
             original == get_registry_dword(m.reg, tweak.value_name)
         IN apply_dword_tweaks(
                [reg |-> [m.reg EXCEPT ![tweak.value_name] = tweak.data],
                 values |-> (tweak.value_name :> original) @@ m.values],
                i + 1)

RECURSIVE apply_string_tweaks(_, _)
apply_string_tweaks(m, i) ==
    IF i > Len(STRING_TWEAKS) THEN m
    ELSE LET tweak == STRING_TWEAKS[i]
             original == get_registry_string(m.reg, tweak.value_name)
         IN apply_string_tweaks(
                [reg |-> set_registry_string(m.reg, tweak.value_name, tweak.data),
                 values |-> (tweak.key :> original) @@ m.values],
                i + 1)

\* the DWORD loop of disable: a REG_DWORD original is written, a missing
\* original deletes the value, a string entry is skipped
restore_dword_values(r, values) ==
    [k \in DOMAIN r |->
        IF k \in DOMAIN values
        THEN (IF values[k] = None THEN Absent
              ELSE IF values[k] >= 0 THEN values[k] ELSE r[k])
        ELSE r[k]]

RECURSIVE restore_string_tweaks(_, _, _)
\* the "_str" entries of the map, applied after the DWORD loop
restore_string_tweaks(r, values, i) ==
    IF i > Len(STRING_TWEAKS) THEN r
    ELSE LET tweak == STRING_TWEAKS[i]
             r1 == IF tweak.key \notin DOMAIN values THEN r
                   ELSE IF values[tweak.key] = None
                        THEN delete_registry_value(r, tweak.value_name)
                        ELSE IF values[tweak.key] <= StrHigh
                             THEN set_registry_string(r, tweak.value_name, values[tweak.key])
                             ELSE r
         IN restore_string_tweaks(r1, values, i + 1)

\* the services of SERVICES_TO_DISABLE that exist on the machine
revi_services == SERVICES_TO_DISABLE \cap Services

\* what ReviTweaksService leaves alone
reviFrame ==
    <<netbios, alive, suspCount, pendingKill, activeScheme, schemeVals, ultimateExists,
      IS_DESKTOP, chassis, windows, gmVars, advVars, calls, hist>>

\* variant: enable does not look at the applied flag
enable_unguarded(state) == FALSE

\* if state.applied { return; } of enable
enable_guard(state) == state.applied

\* if !state.applied { return; } of disable
disable_guard(state) == ~state.applied

ReviTweaksService_enable ==
    /\ IF enable_guard(revi)
       THEN UNCHANGED <<reg, svcStart, svcRunning, revi>>
       ELSE LET states == [s \in revi_services |->
                             [startup |-> IF svcStart[s] # Absent THEN svcStart[s] ELSE 3,
                              was_running |-> s \in svcRunning]]
                m1 == apply_dword_tweaks([reg |-> reg, values |-> EmptyMap], 1)
                m2 == apply_string_tweaks(m1, 1)
            IN /\ svcStart' = [s \in Services |->
                                 IF s \in revi_services THEN 4 ELSE svcStart[s]]
               /\ svcRunning' = svcRunning \ revi_services
               /\ reg' = m2.reg
               /\ revi' = [registry_values |-> m2.values, service_states |-> states,
                           applied |-> TRUE]
    /\ UNCHANGED reviFrame

ReviTweaksService_disable ==
    /\ IF disable_guard(revi)
       THEN UNCHANGED <<reg, svcStart, svcRunning, revi>>
       ELSE LET states == revi.service_states
            IN /\ svcStart' = [s \in Services |->
                                 IF s \in DOMAIN states THEN states[s].startup
                                 ELSE svcStart[s]]
               /\ svcRunning' =
                     svcRunning \cup {s \in DOMAIN states : states[s].was_running}
               /\ reg' = restore_string_tweaks(
                             restore_dword_values(reg, revi.registry_values),
                             revi.registry_values, 1)
               /\ revi' = OriginalState_default
    /\ UNCHANGED reviFrame

(***************************************************************************)
(* The application (main.rs): the shared settings, the three atomics, the  *)
(* GameModeService mutex, one worker thread per toggle and the monitor     *)
(* thread.  A step of a thread is one store, one load or one provider call.*)
(***************************************************************************)
\* GameModeService::detect_game, called on its own
detect_game ==
    /\ ~detected.called
    /\ detected' = [called |-> TRUE, pid |-> detect_fullscreen_game(alive)]
    /\ UNCHANGED <<osVars, registry, power, suspended_shell_ux_pids, stopped_services,
                   network_isolated, advVars, reviVars, appVars, calls, hist, env>>

is_process_running(live, pid) == pid \in live

AppSettings_default ==
    [suspend_explorer |-> FALSE, suspend_browsers |-> TRUE, suspend_launchers |-> TRUE,
     isolate_network |-> FALSE, advanced_tweaks |-> FALSE, disable_mpo |-> FALSE,
     run_on_startup |-> FALSE,
     advanced_modules |-> [NoModules EXCEPT !.lower_bufferbloat = TRUE]]

\* a settings file with everything switched on that the model's bound allows
AppSettings_full ==
    [suspend_explorer |-> TRUE, suspend_browsers |-> TRUE, suspend_launchers |-> TRUE,
     isolate_network |-> TRUE, advanced_tweaks |-> TRUE, disable_mpo |-> FALSE,
     run_on_startup |-> FALSE,
     advanced_modules |-> [NoModules EXCEPT !.enable_hags = TRUE,
                                            !.mmcss_priority_boost = TRUE]]

\* the settings SettingsService::load can return at start
LoadedSettings == {AppSettings_default, AppSettings_full}

\* the values the settings page can send to on_settings_changed
UiSettings ==
    {[suspend_explorer |-> b, suspend_browsers |-> b, suspend_launchers |-> b,
      advanced_tweaks |-> b, disable_mpo |-> b, run_on_startup |-> b] : b \in BOOLEAN}

\* the values the advanced page can send to on_advanced_settings_changed
UiAdvancedSettings ==
    {NoModules, [NoModules EXCEPT !.enable_hags = TRUE, !.process_idle_demotion = TRUE]}

\* the GameModeOptions a handler or the monitor builds from the settings
options_of(guard) ==
    [suspend_explorer |-> guard.suspend_explorer,
     suspend_browsers |-> guard.suspend_browsers,
     suspend_launchers |-> guard.suspend_launchers,
     isolate_network |-> guard.isolate_network]

NoGate == [options |-> NoOptions, advanced |-> FALSE, advanced_modules |-> NoModules]

\* the copies a handler or the monitor takes of the settings
gate_of(guard) ==
    [options |-> options_of(guard), advanced |-> guard.advanced_tweaks,
     advanced_modules |-> guard.advanced_modules]

MonitorIdle == [pc |-> "sleep", pid |-> 0, gate |-> NoGate]

AppHistInit ==
    [toggles |-> 0, changes |-> 0, exits |-> 0,
     session |-> NoGate, sessionN |-> 0, applied |-> FALSE,
     teardown |-> NoGate, torn |-> NoGate, by |-> "none", reverted |-> FALSE,
     quiet |-> FALSE, watchLive |-> FALSE, monDisables |-> 0, activeFalls |-> 0,
     stale |-> FALSE, tornLive |-> FALSE,
     reviRan |-> FALSE, reviPre |-> [k \in RegKeys |-> Absent],
     reviOp |-> "none", reviWas |-> FALSE, reviWrote |-> {}, reviCaptured |-> FALSE,
     reviClean |-> FALSE, reviRound |-> FALSE, reviChanged |-> {},
     cycle |-> "none", cyclePre |-> [k \in RegKeys |-> Absent],
     offLive |-> FALSE, tornBy |-> {}]

set_mpo_disabled(r) == [r EXCEPT !["OverlayTestMode"] = 5]

set_mpo_enabled(r) == [r EXCEPT !["OverlayTestMode"] = Absent, !["OverlayMinFPS"] = 0]

\* ---- handlers of the UI thread ----

\* on_toggle_game_mode(active): copy the settings and spawn the worker
\* app.cycle follows one toggle-on and one toggle-off, each clicked while no
\* worker is running: "on", then "off", then "done" when the toggle-off
\* worker has finished; any other click makes it "broken".  app.cyclePre is
\* the registry at the toggle-on click.
next_cycle(cycle, active) ==
    IF \E w \in 1..Len(workers) : workers[w].pc # "done" THEN "broken"
    ELSE IF active /\ cycle = "none" THEN "on"
    ELSE IF ~active /\ cycle = "on" THEN "off"
    ELSE "broken"

on_toggle_game_mode(active) ==
    /\ ~exited
    /\ app.toggles < MaxToggles
    /\ active \in BOOLEAN
    /\ workers' = Append(workers,
                         [n |-> app.toggles + 1,
                          pc |-> IF active THEN "on_active" ELSE "off_monitoring",
                          gate |-> gate_of(app_settings)])
    /\ app' = [app EXCEPT !.toggles = @ + 1, !.quiet = FALSE,
                          !.cycle = next_cycle(app.cycle, active),
                          !.cyclePre = IF next_cycle(app.cycle, active) = "on"
                                       THEN reg ELSE @,
                          !.offLive = IF active THEN @ ELSE app.applied]
    /\ UNCHANGED <<osVars, gmVars, advVars, reviVars, calls, hist, env, app_settings,
                   settings_file, auto_launch, monitored_pid, is_monitoring,
                   is_game_mode_active, service_lock, monitor, exited>>

on_settings_changed(new_settings) ==
    /\ ~exited
    /\ app.changes < MaxChanges
    /\ LET guard == [app_settings EXCEPT
                        !.suspend_explorer = new_settings.suspend_explorer,
                        !.suspend_browsers = new_settings.suspend_browsers,
                        !.suspend_launchers = new_settings.suspend_launchers,
                        !.advanced_tweaks = new_settings.advanced_tweaks,
                        !.disable_mpo = new_settings.disable_mpo,
                        !.run_on_startup = new_settings.run_on_startup]
       IN /\ app_settings' = guard
          /\ settings_file' = guard
          /\ reg' = IF new_settings.disable_mpo # app_settings.disable_mpo
                    THEN (IF new_settings.disable_mpo
                          THEN set_mpo_disabled(reg) ELSE set_mpo_enabled(reg))
                    ELSE reg
          /\ auto_launch' = IF new_settings.run_on_startup # app_settings.run_on_startup
                            THEN guard.run_on_startup ELSE auto_launch
    /\ app' = [app EXCEPT !.changes = @ + 1]
    /\ UNCHANGED <<netbios, svcRunning, alive, suspCount, pendingKill, activeScheme,
                   schemeVals, ultimateExists, IS_DESKTOP, chassis, windows, gmVars, advVars, reviVars,
                   calls, hist, env, monitored_pid, is_monitoring, is_game_mode_active,
                   service_lock, workers, monitor, exited>>

on_advanced_settings_changed(new_advanced) ==
    /\ ~exited
    /\ app.changes < MaxChanges
    /\ app_settings' = [app_settings EXCEPT !.advanced_modules = new_advanced]
    /\ settings_file' = app_settings'
    /\ app' = [app EXCEPT !.changes = @ + 1]
    /\ UNCHANGED <<osVars, gmVars, advVars, reviVars, calls, hist, env, auto_launch,
                   monitored_pid, is_monitoring, is_game_mode_active, service_lock,
                   workers, monitor, exited>>

\* the tray menu's Exit: the process ends unless game mode is active
on_exit ==
    /\ ~exited
    /\ ~is_game_mode_active
    /\ exited' = TRUE
    /\ UNCHANGED <<osVars, gmVars, advVars, reviVars, calls, hist, env, app_settings,
                   settings_file, auto_launch, monitored_pid, is_monitoring,
                   is_game_mode_active, service_lock, workers, monitor, app>>

\* ---- steps of worker thread w ----

\* what a step that touches only the application's own state leaves alone
machineVars == <<osVars, gmVars, advVars, reviVars, calls, hist, env>>

goto(w, pc) == workers' = [workers EXCEPT ![w].pc = pc]

worker_on_active(w) ==
    /\ ~exited
    /\ workers[w].pc = "on_active"
    /\ is_game_mode_active' = TRUE
    /\ goto(w, IF workers[w].gate.advanced THEN "on_revi" ELSE "on_adv")
    /\ app' = [app EXCEPT !.quiet = FALSE]
    /\ UNCHANGED <<machineVars, app_settings, settings_file, auto_launch, monitored_pid,
                   is_monitoring, service_lock, monitor, exited>>

worker_on_revi(w) ==
    /\ ~exited
    /\ workers[w].pc = "on_revi"
    /\ ReviTweaksService_enable
    /\ goto(w, "on_adv")
    /\ app' = [app EXCEPT !.quiet = FALSE]
    /\ UNCHANGED <<env, app_settings, settings_file, auto_launch, monitored_pid, is_monitoring,
                   is_game_mode_active, service_lock, monitor, exited>>

worker_on_adv(w) ==
    /\ ~exited
    /\ workers[w].pc = "on_adv"
    /\ AdvancedModulesService_enable(workers[w].gate.advanced_modules, NoAdvFault)
    /\ goto(w, "on_enable")
    /\ app' = [app EXCEPT !.quiet = FALSE]
    /\ UNCHANGED <<env, app_settings, settings_file, auto_launch, monitored_pid,
                   is_monitoring, is_game_mode_active, service_lock, monitor, exited>>

\* variant: a lock that is granted whoever holds the mutex
lock_unchecked(holder) == TRUE

\* Mutex::lock returns once no thread holds the guard
lock(holder) == holder = 0

\* the monitor thread as a holder of the mutex (the workers are 1, 2, ...)
MonitorThread == MaxToggles + 1

\* enable_game_mode, detect_game and, if a process is found, pid_ref.store;
\* the guard is kept for the next store, or dropped
enable_under_guard(w) ==
    /\ ~exited
    /\ enable_game_mode(workers[w].gate.options, NoFault)
    /\ LET game_pid == detect_fullscreen_game(alive)
       IN IF game_pid # 0
          THEN /\ monitored_pid' = game_pid
               /\ service_lock' = w
               /\ goto(w, "on_monitoring")
          ELSE /\ UNCHANGED monitored_pid
               /\ service_lock' = 0
               /\ goto(w, "done")
    /\ app' = [app EXCEPT !.quiet = FALSE,
                          !.session = workers[w].gate, !.sessionN = workers[w].n,
                          !.applied = TRUE, !.offLive = FALSE, !.tornBy = {}]
    /\ detected' = [called |-> TRUE, pid |-> detect_fullscreen_game(alive)]
    /\ UNCHANGED <<app_settings, settings_file, auto_launch, is_monitoring,
                   is_game_mode_active, monitor, exited>>

\* service.lock() and what runs under the guard, taken as one step
worker_on_enable(w) ==
    /\ workers[w].pc = "on_enable"
    /\ lock(service_lock)
    /\ enable_under_guard(w)

\* monitoring_ref.store(true); the guard of the service is dropped
worker_on_monitoring(w) ==
    /\ ~exited
    /\ workers[w].pc = "on_monitoring"
    /\ is_monitoring' = TRUE
    /\ service_lock' = 0
    /\ goto(w, "done")
    /\ app' = [app EXCEPT !.quiet = TRUE, !.watchLive = monitored_pid \in alive,
                          !.monDisables = 0, !.activeFalls = 0]
    /\ UNCHANGED <<machineVars, app_settings, settings_file, auto_launch, monitored_pid,
                   is_game_mode_active, monitor, exited>>

worker_off_monitoring(w) ==
    /\ ~exited
    /\ workers[w].pc = "off_monitoring"
    /\ is_monitoring' = FALSE
    /\ goto(w, "off_pid")
    /\ app' = [app EXCEPT !.quiet = FALSE]
    /\ UNCHANGED <<machineVars, app_settings, settings_file, auto_launch, monitored_pid,
                   is_game_mode_active, service_lock, monitor, exited>>

worker_off_pid(w) ==
    /\ ~exited
    /\ workers[w].pc = "off_pid"
    /\ monitored_pid' = 0
    /\ goto(w, "off_disable")
    /\ app' = [app EXCEPT !.quiet = FALSE]
    /\ UNCHANGED <<machineVars, app_settings, settings_file, auto_launch, is_monitoring,
                   is_game_mode_active, service_lock, monitor, exited>>

\* disable_game_mode, the guard dropped
disable_under_guard(w) ==
    /\ ~exited
    /\ disable_game_mode(workers[w].gate.options, NoFault)
    /\ goto(w, IF workers[w].gate.advanced THEN "off_revi" ELSE "off_adv")
    /\ app' = [app EXCEPT !.quiet = FALSE,
                          !.teardown = workers[w].gate, !.torn = app.session,
                          !.by = "toggle",
                          !.reverted = app.applied /\ workers[w].n > app.sessionN,
                          !.applied = FALSE, !.stale = FALSE, !.tornLive = FALSE,
                          !.tornBy = IF app.offLive THEN @ \cup {"toggle"} ELSE @]
    /\ service_lock' = 0
    /\ UNCHANGED <<app_settings, settings_file, auto_launch, monitored_pid, is_monitoring,
                   is_game_mode_active, monitor, exited>>

\* service.lock() and what runs under the guard, taken as one step
worker_off_disable(w) ==
    /\ workers[w].pc = "off_disable"
    /\ lock(service_lock)
    /\ disable_under_guard(w)

worker_off_revi(w) ==
    /\ ~exited
    /\ workers[w].pc = "off_revi"
    /\ ReviTweaksService_disable
    /\ goto(w, "off_adv")
    /\ app' = [app EXCEPT !.quiet = FALSE]
    /\ UNCHANGED <<env, app_settings, settings_file, auto_launch, monitored_pid, is_monitoring,
                   is_game_mode_active, service_lock, monitor, exited>>

worker_off_adv(w) ==
    /\ ~exited
    /\ workers[w].pc = "off_adv"
    /\ AdvancedModulesService_disable(workers[w].gate.advanced_modules)
    /\ goto(w, "off_active")
    /\ app' = [app EXCEPT !.quiet = FALSE]
    /\ UNCHANGED <<env, app_settings, settings_file, auto_launch, monitored_pid,
                   is_monitoring, is_game_mode_active, service_lock, monitor, exited>>

worker_off_active(w) ==
    /\ ~exited
    /\ workers[w].pc = "off_active"
    /\ is_game_mode_active' = FALSE
    /\ goto(w, "done")
    /\ app' = [app EXCEPT !.quiet = FALSE,
                          !.activeFalls = IF is_game_mode_active THEN @ + 1 ELSE @,
                          !.cycle = IF @ = "off" THEN "done" ELSE @]
    /\ UNCHANGED <<machineVars, app_settings, settings_file, auto_launch, monitored_pid,
                   is_monitoring, service_lock, monitor, exited>>

\* ---- steps of the monitor thread ----

\* what a monitor step that touches only the atomics and its locals leaves alone
monitorFrame ==
    <<machineVars, app_settings, settings_file, auto_launch, service_lock, workers, exited>>

\* after the sleep: is_monitoring.load
monitor_load_monitoring ==
    /\ ~exited
    /\ monitor.pc = "sleep"
    /\ monitor' = IF is_monitoring THEN [monitor EXCEPT !.pc = "load_pid"] ELSE monitor
    /\ UNCHANGED <<monitorFrame, monitored_pid, is_monitoring, is_game_mode_active, app>>

monitor_load_pid ==
    /\ ~exited
    /\ monitor.pc = "load_pid"
    /\ monitor' = IF monitored_pid = 0
                  THEN MonitorIdle
                  ELSE [monitor EXCEPT !.pc = "check", !.pid = monitored_pid]
    /\ UNCHANGED <<monitorFrame, monitored_pid, is_monitoring, is_game_mode_active, app>>

\* is_process_running(pid); if it is not: is_monitoring.store(false)
monitor_check ==
    /\ ~exited
    /\ monitor.pc = "check"
    /\ IF is_process_running(alive, monitor.pid)
       THEN /\ monitor' = MonitorIdle
            /\ UNCHANGED is_monitoring
       ELSE /\ is_monitoring' = FALSE
            /\ monitor' = [monitor EXCEPT !.pc = "clear_pid"]
    /\ UNCHANGED <<monitorFrame, monitored_pid, is_game_mode_active, app>>

\* monitored_pid.store(0), then the settings are copied under their lock
monitor_clear_pid ==
    /\ ~exited
    /\ monitor.pc = "clear_pid"
    /\ monitored_pid' = 0
    /\ monitor' = [monitor EXCEPT !.pc = "disable", !.gate = gate_of(app_settings)]
    /\ UNCHANGED <<monitorFrame, is_monitoring, is_game_mode_active, app>>

monitor_disable_under_guard ==
    /\ ~exited
    /\ disable_game_mode(monitor.gate.options, NoFault)
    /\ monitor' = [monitor EXCEPT !.pc = IF monitor.gate.advanced THEN "revi" ELSE "adv"]
    /\ app' = [app EXCEPT !.teardown = monitor.gate, !.torn = app.session,
                          !.by = "monitor",
                          !.reverted = app.applied, !.applied = FALSE,
                          !.monDisables = @ + 1,
                          !.stale = app.applied /\ monitor.pid # detected.pid,
                          !.tornLive = app.applied /\ detected.pid \in alive,
                          !.tornBy = @ \cup {"monitor"}]
    /\ service_lock' = 0
    /\ UNCHANGED <<app_settings, settings_file, auto_launch, monitored_pid, is_monitoring,
                   is_game_mode_active, workers, exited>>

\* gamemode_for_monitor.lock() and what runs under the guard, as one step
monitor_disable ==
    /\ monitor.pc = "disable"
    /\ lock(service_lock)
    /\ monitor_disable_under_guard

monitor_revi ==
    /\ ~exited
    /\ monitor.pc = "revi"
    /\ ReviTweaksService_disable
    /\ monitor' = [monitor EXCEPT !.pc = "adv"]
    /\ UNCHANGED <<env, app_settings, settings_file, auto_launch, monitored_pid, is_monitoring,
                   is_game_mode_active, service_lock, workers, exited, app>>

monitor_adv ==
    /\ ~exited
    /\ monitor.pc = "adv"
    /\ AdvancedModulesService_disable(monitor.gate.advanced_modules)
    /\ monitor' = [monitor EXCEPT !.pc = "active"]
    /\ UNCHANGED <<env, app_settings, settings_file, auto_launch, monitored_pid,
                   is_monitoring, is_game_mode_active, service_lock, workers, exited, app>>

monitor_clear_active ==
    /\ ~exited
    /\ monitor.pc = "active"
    /\ is_game_mode_active' = FALSE
    /\ monitor' = MonitorIdle
    /\ app' = [app EXCEPT !.activeFalls = IF is_game_mode_active THEN @ + 1 ELSE @]
    /\ UNCHANGED <<monitorFrame, monitored_pid, is_monitoring>>

\* ---- the machine around the application ----

\* a process the monitor can be tracking exits
ProcessExit ==
    /\ app.exits < MaxExits
    /\ \E p \in {q \in alive : qualifies(q)} :
          /\ alive' = alive \ {p}
          /\ suspCount' = [suspCount EXCEPT ![p] = 0]
          /\ app' = IF p = monitored_pid
                    THEN [app EXCEPT !.exits = @ + 1, !.monDisables = 0, !.activeFalls = 0]
                    ELSE [app EXCEPT !.exits = @ + 1]
    /\ UNCHANGED <<reg, netbios, svcRunning, pendingKill, activeScheme, schemeVals,
                   ultimateExists, IS_DESKTOP, chassis, windows, gmVars, advVars, reviVars, calls, hist, env,
                   app_settings, settings_file, auto_launch, monitored_pid, is_monitoring,
                   is_game_mode_active, service_lock, workers, monitor, exited>>

\* ---- the threads ----
\* the steps of a worker outside the guard of the service
worker_unguarded(w) ==
    \/ worker_on_active(w) \/ worker_on_revi(w) \/ worker_on_adv(w)
    \/ worker_on_monitoring(w)
    \/ worker_off_monitoring(w) \/ worker_off_pid(w)
    \/ worker_off_revi(w) \/ worker_off_adv(w) \/ worker_off_active(w)

Worker ==
    \E w \in DOMAIN workers :
        \/ worker_unguarded(w)
        \/ worker_on_enable(w) \/ worker_off_disable(w)

monitor_unguarded ==
    \/ monitor_load_monitoring \/ monitor_load_pid \/ monitor_check
    \/ monitor_clear_pid
    \/ monitor_revi \/ monitor_adv \/ monitor_clear_active

Monitor == monitor_unguarded \/ monitor_disable

\* ---- the threads, with the lock and the call under it as separate steps ----
\* service.lock() of a worker: the thread waits until it is granted the guard
worker_lock(w) ==
    /\ ~exited
    /\ workers[w].pc \in {"on_enable", "off_disable"}
    /\ lock(service_lock)
    /\ service_lock' = w
    /\ goto(w, IF workers[w].pc = "on_enable" THEN "in_enable" ELSE "in_disable")
    /\ UNCHANGED <<machineVars, app_settings, settings_file, auto_launch, monitored_pid,
                   is_monitoring, is_game_mode_active, monitor, exited, app>>

\* svc.enable_game_mode(&options) and the detection, the guard held
worker_in_enable(w) ==
    /\ workers[w].pc = "in_enable"
    /\ enable_under_guard(w)

\* svc.disable_game_mode(&options), the guard held
worker_in_disable(w) ==
    /\ workers[w].pc = "in_disable"
    /\ disable_under_guard(w)

\* gamemode_for_monitor.lock()
monitor_lock ==
    /\ ~exited
    /\ monitor.pc = "disable"
    /\ lock(service_lock)
    /\ service_lock' = MonitorThread
    /\ monitor' = [monitor EXCEPT !.pc = "in_disable"]
    /\ UNCHANGED <<machineVars, app_settings, settings_file, auto_launch, monitored_pid,
                   is_monitoring, is_game_mode_active, workers, exited, app>>

\* svc.disable_game_mode(&options) of the monitor, the guard held
monitor_in_disable ==
    /\ monitor.pc = "in_disable"
    /\ monitor_disable_under_guard

LockingWorker ==
    \E w \in DOMAIN workers :
        \/ worker_unguarded(w)
        \/ worker_lock(w) \/ worker_in_enable(w) \/ worker_in_disable(w)

LockingMonitor ==
    \/ monitor_unguarded
    \/ monitor_lock \/ monitor_in_disable


(***************************************************************************)
(* History of the operations (not program state):                          *)
(*   lastOp         the last orchestrator operation                        *)
(*   pre, enOpts    the store before, and the options of, the enable not   *)
(*                  yet reverted; clean: no fault in it and no change of   *)
(*                  the store by others since                              *)
(*   roundtrip      the last operation is a disable that directly follows  *)
(*                  an enable with the same options, without faults or     *)
(*                  changes by others                                      *)
(*   changed, changedNetbios                                               *)
(*                  the values written by the reverted enable that differ  *)
(*                  from their value before that enable                    *)
(*   rec...         what the enables since the previous disable recorded   *)
(*   rev...         the same, as of the start of the last disable          *)
(*   fresh          the original-value slots assigned by the last enable   *)
(*   enDesktop      is_desktop() as the last enable saw it                 *)
(*   wmicRuns       the number of times the chassis was queried            *)
(***************************************************************************)
HistInit ==
    [lastOp |-> "none", ops |-> 0, everEnabled |-> FALSE,
     pre |-> PreNone, enOpts |-> NoOptions, clean |-> FALSE,
     roundtrip |-> FALSE, changed |-> {}, changedNetbios |-> {},
     recEnabled |-> FALSE, revEnabled |-> FALSE,
     recStopped |-> {}, revStopped |-> {},
     recSuspended |-> {}, revSuspended |-> {},
     anyIsolate |-> FALSE, revAnyIsolate |-> FALSE, revLastIsolate |-> FALSE,
     fresh |-> {}, revFresh |-> {},
     enDesktop |-> FALSE, revDesktop |-> FALSE, wmicRuns |-> 0,
     disExplorer |-> FALSE, disEnv |-> 0, disPending |-> {},
     idem |-> FALSE, idemChanged |-> {}]

(***************************************************************************)
(* Initial state: the services constructed (GameModeService::new), the     *)
(* machine in one of a few configurations.                                 *)
(***************************************************************************)
InitOS ==
    /\ \E v \in EnvVals :
          /\ reg = [k \in RegKeys |-> v]
          /\ netbios = [i \in Interfaces |-> v]
    /\ svcRunning = Services
    /\ alive = Pids
    /\ suspCount = [p \in Pids |-> 0]
    /\ pendingKill = {}
    /\ activeScheme = "balanced"
    /\ schemeVals = [s \in Schemes |-> [boost |-> MaxVal, minp |-> 0]]
    /\ ultimateExists = FALSE
    /\ chassis \in BOOLEAN
    /\ IS_DESKTOP = [set |-> FALSE, value |-> FALSE]
    /\ coreParking = [min |-> 50, max |-> 100]
    /\ autotuning = "normal"
    /\ prio = [p \in DemotePids |-> "normal"]
    /\ svcStart = [s \in Services |-> 2]

GameModeService_new ==
    /\ registry = RegistryService_new
    /\ power = PowerService_new(activeScheme)
    /\ suspended_shell_ux_pids = <<>>
    /\ stopped_services = <<>>
    /\ network_isolated = FALSE
    /\ detected = NoDetection

\* main before the event loop runs: the services constructed, the atomics
\* cleared, the monitor thread spawned
InitServices ==
    /\ InitOS
    /\ GameModeService_new
    /\ advanced_modules = AdvancedModulesService_new
    /\ revi = OriginalState_default
    /\ auto_launch = FALSE
    /\ monitored_pid = 0
    /\ is_monitoring = FALSE
    /\ is_game_mode_active = FALSE
    /\ service_lock = 0
    /\ workers = <<>>
    /\ monitor = MonitorIdle
    /\ exited = FALSE
    /\ app = AppHistInit
    /\ calls = NoCalls
    /\ hist = HistInit
    /\ advCalls = NoAdvCalls
    /\ advHist = AdvHistInit
    /\ env = 0

Init ==
    /\ InitServices
    /\ windows = DefaultWindows
    /\ app_settings = AppSettings_default
    /\ settings_file = app_settings

(***************************************************************************)
(* The environment: other programs and the user change the machine.        *)
(***************************************************************************)
\* another program writes or deletes a network-isolation value
EnvNetwork ==
    /\ env < MaxEnv
    /\ env' = env + 1
    /\ \/ \E v \in EnvVals :
             /\ reg["EnableMulticast"] # v
             /\ reg' = [reg EXCEPT !["EnableMulticast"] = v]
             /\ UNCHANGED netbios
       \/ \E i \in Interfaces, v \in EnvVals :
             /\ netbios[i] # v
             /\ netbios' = [netbios EXCEPT ![i] = v]
             /\ UNCHANGED reg
    /\ hist' = [hist EXCEPT !.clean = FALSE]
    /\ UNCHANGED <<svcRunning, alive, suspCount, pendingKill, activeScheme, schemeVals,
                   ultimateExists, IS_DESKTOP, chassis, windows, gmVars, calls, advVars, reviVars, appVars>>

EnvService ==
    /\ env < MaxEnv
    /\ env' = env + 1
    /\ \E s \in Services :
          svcRunning' = IF s \in svcRunning THEN svcRunning \ {s} ELSE svcRunning \cup {s}
    /\ UNCHANGED <<reg, netbios, alive, suspCount, pendingKill, activeScheme, schemeVals,
                   ultimateExists, IS_DESKTOP, chassis, windows, gmVars, calls, hist, advVars, reviVars, appVars>>

EnvProcess ==
    /\ env < MaxEnv
    /\ env' = env + 1
    /\ \E p \in SessionPids :
          \/ /\ p \in alive
             /\ alive' = alive \ {p}
             /\ suspCount' = [suspCount EXCEPT ![p] = 0]
          \/ /\ p \notin alive
             /\ alive' = alive \cup {p}
             /\ UNCHANGED suspCount
          \/ /\ p \in alive
             /\ suspCount' = NtSuspendProcess(suspCount, p)
             /\ UNCHANGED alive
    /\ UNCHANGED <<reg, netbios, svcRunning, pendingKill, activeScheme, schemeVals,
                   ultimateExists, IS_DESKTOP, chassis, windows, gmVars, calls, hist, advVars, reviVars, appVars>>

\* the user or another program changes a value the advanced modules touch
EnvAdvanced ==
    /\ env < MaxEnv
    /\ env' = env + 1
    /\ \/ /\ coreParking' = [min |-> 0, max |-> 100]
          /\ coreParking' # coreParking
          /\ UNCHANGED <<autotuning, prio>>
       \/ /\ autotuning' = "restricted"
          /\ autotuning' # autotuning
          /\ UNCHANGED <<coreParking, prio>>
       \/ \E p \in DemotePids :
             /\ p \in alive
             /\ prio[p] # "high"
             /\ prio' = [prio EXCEPT ![p] = "high"]
             /\ UNCHANGED <<coreParking, autotuning>>
    /\ advHist' = [advHist EXCEPT !.clean = FALSE]
    /\ UNCHANGED <<reg, advanced_modules, advCalls, advFrame, appVars>>

\* the taskkill commands spawned by kill_processes run
Taskkill ==
    /\ pendingKill # {}
    /\ pendingKill' = {}
    /\ alive' = {p \in alive : PidName[p] \notin pendingKill}
    /\ suspCount' = [p \in Pids |-> IF PidName[p] \in pendingKill THEN 0 ELSE suspCount[p]]
    /\ UNCHANGED <<reg, netbios, svcRunning, activeScheme, schemeVals, ultimateExists,
                   IS_DESKTOP, chassis, windows, gmVars, calls, hist, env, advVars, reviVars, appVars>>

\* the options the operations are called with: launchers are handled like
\* browsers, so the two flags are chosen together
ExploredOptions == {o \in GameModeOptions : o.suspend_launchers = o.suspend_browsers}

\* the faults of F an operation may meet in the current state
Faults(F) == IF env < MaxEnv THEN {NoFault} \cup F ELSE {NoFault}

EnableWith(F) ==
    /\ hist.ops < MaxOps
    /\ \E options \in ExploredOptions, f \in Faults(F) : enable_game_mode(options, f)
    /\ UNCHANGED <<detected, appVars>>

DisableWith(F) ==
    /\ hist.ops < MaxOps
    /\ \E options \in ExploredOptions, f \in Faults(F) : disable_game_mode(options, f)
    /\ UNCHANGED appVars

(***************************************************************************)
(* Spec: the orchestrator's operations in any order, on a machine whose    *)
(* power calls may fail and whose network settings others may change.      *)
(***************************************************************************)
Enable == EnableWith(PowerFaults)

Disable == DisableWith({})

Next == Enable \/ Disable \/ Taskkill \/ EnvNetwork

Spec == Init /\ [][Next]_vars

(***************************************************************************)
(* SpecPow: the orchestrator's operations on a machine whose power calls   *)
(* may fail and whose chassis query may change its answer.                 *)
(***************************************************************************)
InitPow == Init /\ reg["EnableMulticast"] = Absent

\* wmic reports another chassis type, or fails, from now on
EnvChassis ==
    /\ env < MaxEnv
    /\ env' = env + 1
    /\ chassis' = ~chassis
    /\ UNCHANGED <<reg, netbios, svcRunning, alive, suspCount, pendingKill, activeScheme,
                   schemeVals, ultimateExists, IS_DESKTOP, windows, gmVars, calls, hist,
                   advVars, reviVars, appVars>>

\* the duplication succeeds and activating the duplicated scheme fails
DuplicatedSchemeFaults == {[NoFault EXCEPT !.dupOk = TRUE, !.setUltimate = FALSE]}

EnablePow == EnableWith(PowerFaults \cup DuplicatedSchemeFaults \cup PanicFaults)

DisablePow == DisableWith(PanicFaults)

NextPow == EnablePow \/ DisablePow \/ EnvChassis

SpecPow == InitPow /\ [][NextPow]_vars

(***************************************************************************)
(* SpecRevi: ReviTweaksService switched on and off while other programs    *)
(* change the values it touches.  app.reviPre is the registry as the last  *)
(* enable that applied the tweaks found it.                                *)
(***************************************************************************)
InitRevi == Init /\ is_desktop

\* the values of the tweak table that differ between two registries
TweakDiff(r1, r2) ==
    {REGISTRY_TWEAKS[i].value_name : i \in 1..Len(REGISTRY_TWEAKS)}
    \cap {k \in RegKeys : r1[k] # r2[k]}

ReviEnable ==
    /\ ReviTweaksService_enable
    /\ app' = [app EXCEPT !.reviRan = TRUE,
                          !.reviPre = IF revi.applied THEN @ ELSE reg,
                          !.reviOp = "enable", !.reviWas = revi.applied,
                          !.reviWrote = {k \in RegKeys : reg'[k] # reg[k]},
                          !.reviCaptured = (revi'.registry_values # revi.registry_values),
                          !.reviClean = IF revi.applied THEN @ ELSE TRUE,
                          !.reviRound = FALSE, !.reviChanged = {}]
    /\ UNCHANGED <<env, app_settings, settings_file, auto_launch, monitored_pid,
                   is_monitoring, is_game_mode_active, service_lock, workers, monitor,
                   exited>>

ReviDisable ==
    /\ ReviTweaksService_disable
    /\ app' = [app EXCEPT !.reviOp = "disable", !.reviWas = revi.applied,
                          !.reviWrote = {k \in RegKeys : reg'[k] # reg[k]},
                          !.reviCaptured = FALSE,
                          !.reviRound = revi.applied /\ app.reviClean,
                          !.reviChanged = IF revi.applied
                                          THEN TweakDiff(reg', app.reviPre) ELSE {},
                          !.reviClean = FALSE]
    /\ UNCHANGED <<env, app_settings, settings_file, auto_launch, monitored_pid,
                   is_monitoring, is_game_mode_active, service_lock, workers, monitor,
                   exited>>

\* another program writes a DWORD or a string to, or deletes, a value of
\* the tweak table
EnvTweakValue ==
    /\ env < MaxEnv
    /\ env' = env + 1
    /\ \E k \in {"FolderType", "Scheduling Category", "PowerThrottlingOff"},
          v \in EnvVals \cup {StrHigh} :
          /\ reg[k] # v
          /\ reg' = [reg EXCEPT ![k] = v]
    /\ app' = [app EXCEPT !.reviClean = FALSE]
    /\ UNCHANGED <<netbios, svcRunning, alive, suspCount, pendingKill, activeScheme,
                   schemeVals, ultimateExists, IS_DESKTOP, chassis, windows, gmVars, calls,
                   hist, advVars, reviVars, app_settings, settings_file, auto_launch,
                   monitored_pid, is_monitoring, is_game_mode_active, service_lock, workers,
                   monitor, exited>>

NextRevi == ReviEnable \/ ReviDisable \/ EnvTweakValue

SpecRevi == InitRevi /\ [][NextRevi]_vars

(***************************************************************************)
(* SpecSvc: the same operations on a machine whose services and processes  *)
(* others start, stop and suspend, and whose service and process calls may *)
(* fail.                                                                   *)
(***************************************************************************)
InitSvc == Init /\ is_desktop /\ reg["EnableMulticast"] = Absent

EnableSvc == EnableWith(ServiceFaults \cup ProcessFaults)

DisableSvc == DisableWith(ProcessFaults)

NextSvc == EnableSvc \/ DisableSvc \/ Taskkill \/ EnvService \/ EnvProcess

SpecSvc == InitSvc /\ [][NextSvc]_vars

(***************************************************************************)
(* SpecAdv: the hardware-tweak modules switched on and off in any order,   *)
(* while the user changes the values they touch.                           *)
(***************************************************************************)
InitAdv == Init /\ is_desktop

AdvEnable ==
    /\ advHist.ops < MaxAdvOps
    /\ \E settings \in AdvancedModuleSettings,
          f \in (IF env < MaxEnv THEN {NoAdvFault} \cup AdvFaults ELSE {NoAdvFault}) :
          /\ AdvancedModulesService_enable(settings, f)
          /\ env' = IF f = NoAdvFault THEN env ELSE env + 1
    /\ UNCHANGED appVars

AdvDisable ==
    /\ advHist.ops < MaxAdvOps
    /\ \E settings \in AdvancedModuleSettings : AdvancedModulesService_disable(settings)
    /\ UNCHANGED <<env, appVars>>

\* the process-demotion and bufferbloat modules alone, over longer runs
DemotionSettings ==
    {s \in AdvancedModuleSettingsAll :
        /\ ~s.disable_core_parking /\ ~s.enable_large_pages
        /\ ~s.mmcss_priority_boost /\ ~s.enable_hags}

DemEnable ==
    /\ advHist.ops < MaxDemOps
    /\ \E settings \in DemotionSettings, f \in {NoAdvFault} \cup AdvFaults :
          AdvancedModulesService_enable(settings, f)
    /\ UNCHANGED <<env, appVars>>

DemDisable ==
    /\ advHist.ops < MaxDemOps
    /\ \E settings \in DemotionSettings : AdvancedModulesService_disable(settings)
    /\ UNCHANGED <<env, appVars>>

NextDem == DemEnable \/ DemDisable \/ EnvAdvanced

SpecDem == InitAdv /\ [][NextDem]_vars

NextAdv == AdvEnable \/ AdvDisable \/ EnvAdvanced

SpecAdv == InitAdv /\ [][NextAdv]_vars

(***************************************************************************)
(* SpecApp: the application.  The user clicks the toggle, changes the      *)
(* settings pages and picks Exit from the tray menu; the toggle workers    *)
(* and the monitor thread run in any interleaving; the processes a session *)
(* can track exit.                                                        *)
(***************************************************************************)
InitApp ==
    /\ InitServices
    /\ is_desktop
    /\ windows = DefaultWindows
    /\ app_settings \in LoadedSettings
    /\ settings_file = app_settings

Toggle == \E active \in BOOLEAN : on_toggle_game_mode(active)

SettingsChanged == \E new_settings \in UiSettings : on_settings_changed(new_settings)

AdvancedSettingsChanged ==
    \E new_advanced \in UiAdvancedSettings : on_advanced_settings_changed(new_advanced)

Exit == on_exit

NextApp ==
    \/ Toggle \/ SettingsChanged \/ AdvancedSettingsChanged \/ Exit
    \/ Worker \/ Monitor \/ ProcessExit

SpecApp == InitApp /\ [][NextApp]_vars

(***************************************************************************)
(* SpecTog: the user clicks the toggle while the settings have the ReviOS  *)
(* tweaks and hardware-tweak modules switched on; nothing else runs.       *)
(***************************************************************************)
InitTog == InitApp /\ app_settings = AppSettings_full

NextTog == Toggle \/ Worker

SpecTog == InitTog /\ [][NextTog]_vars

(***************************************************************************)
(* SpecDet: detect_game on a machine whose processes have any of the       *)
(* window bounds of the model.                                             *)
(***************************************************************************)
\* the processes whose windows vary: a browser and two games with any
\* bounds, the application itself and an excluded process (both skipped
\* before their window is looked at) with no window or one covering the screen
DetPids == {current_pid, 10, 12} \cup GamePids

DetWindows(p) ==
    IF p \in {current_pid, 10}
    THEN {NoWindow, [visible |-> TRUE, width |-> screen_w, height |-> screen_h]}
    ELSE VisibleWindows \cup {NoWindow}

InitDet ==
    /\ InitServices
    /\ is_desktop
    /\ reg["Priority"] = Absent
    /\ \E f \in [DetPids -> VisibleWindows \cup {NoWindow}] :
          /\ \A p \in DetPids : f[p] \in DetWindows(p)
          /\ windows = [p \in Pids |-> IF p \in DetPids THEN f[p] ELSE NoWindow]
    /\ app_settings = AppSettings_default
    /\ settings_file = app_settings

DetectGame == detect_game

NextDet == DetectGame

SpecDet == InitDet /\ [][NextDet]_vars

(***************************************************************************)
(* SpecMon: the toggle and the monitor with the settings left as loaded,   *)
(* the monitor thread scheduled fairly.                                    *)
(***************************************************************************)
InitMon == InitApp /\ reg["Priority"] = Absent

NextMon == Toggle \/ Exit \/ Worker \/ Monitor \/ ProcessExit

SpecMon == InitMon /\ [][NextMon]_vars /\ WF_vars(Monitor)

(***************************************************************************)
(* SpecLock: the application with the taking of the GameModeService mutex  *)
(* and the call made under it as separate steps of each thread.            *)
(***************************************************************************)
NextLock == Toggle \/ LockingWorker \/ LockingMonitor \/ ProcessExit

SpecLock == InitMon /\ [][NextLock]_vars

(***************************************************************************)
(* Properties of the orchestrator.                                         *)
(***************************************************************************)

\* C1: with no failing call and no change of the store by others,
\* enable_game_mode(opts) immediately followed by disable_game_mode(opts)
\* leaves every value that the enable wrote equal to its value before the
\* enable (an absent value absent again).
C1_RoundTripRestoresStore ==
    (hist.lastOp = "disable" /\ hist.roundtrip)
        => (hist.changed = {} /\ hist.changedNetbios = {})

\* C3: disable_game_mode on a freshly constructed GameModeService (no
\* enable_game_mode before it) issues no service start or stop call and no
\* process resume call, whatever is running.
C3_FreshDisableIssuesNoCalls ==
    (calls.op = "disable" /\ ~hist.everEnabled)
        => /\ calls.stopped = {}
           /\ calls.startQueried = {}
           /\ calls.started = {}
           /\ calls.resumedByPid = {}
           /\ calls.resumedByName = {}

\* C4: the services a disable_game_mode queries for start are exactly the
\* names stop_optimization_services returned in the enable_game_mode calls
\* since the previous disable, and it starts no service outside that set.
C4_RestoresExactlyRecordedServices ==
    calls.op = "disable"
        => /\ calls.startQueried = hist.revStopped
           /\ calls.started \subseteq hist.revStopped

\* C4 case: a disable that restores a recorded service while an installed
\* catalog service that was not recorded is stopped (and stays stopped)
C4_Witness ==
    /\ calls.op = "disable"
    /\ calls.startQueried # {}
    /\ \E s \in (OPTIMIZATION_SERVICES \cap Services) \ svcRunning :
          s \notin calls.startQueried

\* C5: a disable_game_mode that reverts an enable issues a resume only to
\* pids recorded in suspended_shell_ux_pids by that enable.
C5_ResumesOnlyRecordedPids ==
    (calls.op = "disable" /\ hist.revEnabled)
        => (calls.resumedByPid \cup calls.resumedByName) \subseteq hist.revSuspended

\* C6 (as stated): if isolate_network was false in the last enable_game_mode
\* before a disable_game_mode, that disable issues no toggle_isolation(false).
C6_NoRevertIfLastEnableNotIsolated ==
    (calls.op = "disable" /\ hist.revEnabled /\ ~hist.revLastIsolate)
        => calls.netRevert = 0

\* C6 (amended): if isolate_network was false in every enable_game_mode
\* since the previous disable (or construction), a disable_game_mode issues
\* no toggle_isolation(false), whatever options it is passed and whatever
\* the live network values are.
C6_NoRevertIfNoEnableIsolated ==
    (calls.op = "disable" /\ ~hist.revAnyIsolate) => calls.netRevert = 0

\* C6 case: a disable after an enable without isolation, on a store whose
\* live values look isolated (multicast disabled, NetBIOS option present)
C6_Witness ==
    /\ calls.op = "disable"
    /\ hist.revEnabled
    /\ ~hist.revAnyIsolate
    /\ reg["EnableMulticast"] = 0
    /\ \A i \in Interfaces : netbios[i] # Absent

\* C7: every original value a disable_game_mode writes back was captured
\* by the enable_game_mode it reverts, never in an earlier session or at
\* construction.
C7_WritesBackOnlyFreshCaptures ==
    calls.op = "disable" => calls.writeBack \subseteq hist.revFresh

(***************************************************************************)
(* Properties of the hardware-tweak modules.                               *)
(***************************************************************************)

\* C2: with no failing call and no change by others,
\* AdvancedModulesService::enable(s) immediately followed by disable(s)
\* leaves every value that the enable wrote equal to its value before the
\* enable.
C2_AdvancedRoundTripRestores ==
    (advHist.lastOp = "disable" /\ advHist.roundtrip) => advHist.changed = {}

(***************************************************************************)
(* Properties of the application threads.  The history app records:        *)
(*   session, sessionN   the copies of the settings the last toggle-on     *)
(*                       passed to its enable calls, and the number of     *)
(*                       its click                                         *)
(*   applied             an enable_game_mode has run and no disable since  *)
(*   teardown, by        the copies of the settings the last disable path  *)
(*                       was given, and the thread that ran it             *)
(*   torn, reverted      the session that disable path found, and whether  *)
(*                       it reverted one (for a toggle-off: one of an      *)
(*                       earlier click)                                    *)
(*   quiet               the watch was set and no toggle was clicked and   *)
(*                       no toggle worker has taken a step since           *)
(*   watchLive           the tracked process was live when the watch was   *)
(*                       set                                               *)
(*   monDisables, activeFalls                                              *)
(*                       disable_game_mode calls of the monitor, and       *)
(*                       changes of is_game_mode_active from true to       *)
(*                       false, since the watch was set or, later, the     *)
(*                       tracked process exited                            *)
(*   stale, tornLive     at the last disable_game_mode of the monitor: the  *)
(*                       session it found applied had stored another pid   *)
(*                       than the one the monitor checked; the process     *)
(*                       that session tracks was live                      *)
(***************************************************************************)

\* C8: a toggle-off that reverts the session of an earlier toggle-on gives
\* its disable calls (disable_game_mode, ReviTweaksService::disable,
\* AdvancedModulesService::disable) the flag values the toggle-on gave its
\* enable calls, whatever the settings are at the time of the toggle-off.
C8_ToggleOffGatedByEnableFlags ==
    (app.by = "toggle" /\ app.reverted) => app.teardown = app.torn

\* C9: a monitor that tears a session down gives the disable path the
\* GameModeOptions, the advanced flag and the module flags that the
\* toggle-on passed to enable.
C9_MonitorDisablesWithEnableOptions ==
    (app.by = "monitor" /\ app.reverted) => app.teardown = app.torn

\* the watch of the session was set while its process was live, the process
\* has exited since, and no toggle has been clicked or has run since
WatchDead ==
    /\ is_monitoring
    /\ monitored_pid # 0
    /\ monitored_pid \notin alive
    /\ is_game_mode_active
    /\ app.quiet
    /\ app.watchLive

\* the monitor has cleared the watch, has called disable_game_mode once, the
\* active flag has fallen once, and the monitor is idle again
WatchCleared ==
    /\ ~is_monitoring
    /\ monitored_pid = 0
    /\ ~is_game_mode_active
    /\ app.monDisables = 1
    /\ app.activeFalls = 1
    /\ monitor.pc = "sleep"

\* C10: once the tracked process of an active session has exited, and unless
\* a toggle intervenes or the application exits, the fairly scheduled
\* monitor reaches the state in which the watch is cleared, disable_game_mode
\* has run exactly once and is_game_mode_active has fallen exactly once.
C10_MonitorClearsWatchOnce == WatchDead ~> (WatchCleared \/ ~app.quiet \/ exited)
\* C12: an enable with the HAGS module selected, on a store in which HwSchMode
\* is absent, followed by a disable with the HAGS module selected, leaves
\* HwSchMode absent.  (advHist.changed holds the values that differ from
\* their pre-enable value after the disable.)
C12_HagsRoundTripLeavesAbsent ==
    (advHist.lastOp = "disable" /\ advHist.hagsFresh) => "HwSchMode" \notin advHist.changed

\* C13: a disable whose restore_hags found no captured value did not write
\* HwSchMode, and a disable that wrote HwSchMode wrote the captured value
C13_RestoreHagsWritesOnlyCaptured ==
    advCalls.op = "disable" =>
        /\ (advHist.captured = None => "HwSchMode" \notin advCalls.writes)
        /\ ("HwSchMode" \in advCalls.writes =>
               /\ advHist.hagsRan
               /\ advHist.captured # None
               /\ reg["HwSchMode"] = advHist.captured)

\* restore_hags has run with nothing captured, after an enable_hags that
\* found HwSchMode absent
C13_Witness ==
    /\ advCalls.op = "disable"
    /\ advHist.hagsRan
    /\ advHist.hagsFresh
    /\ advHist.captured = None

\* the processes of the snapshot that satisfy one of the two rules: not the
\* application and not excluded, with a visible window, and a known game or
\* with bounds of at least the screen's width and height
Eligible ==
    {p \in alive :
        /\ p # current_pid
        /\ \A e \in EXCLUDED_PROCESSES : Lower(e) # Lower(PidName[p])
        /\ windows[p].visible
        /\ \/ \E g \in KNOWN_GAMES : Lower(g) = Lower(PidName[p])
           \/ windows[p].width >= screen_w /\ windows[p].height >= screen_h}

KnownGames == {p \in alive : \E g \in KNOWN_GAMES : Lower(g) = Lower(PidName[p])}

\* C14: detect_game returns the first process of the snapshot that satisfies
\* either rule, and None when there is none; in particular it returns a
\* process that is not a known game when a known game follows it
C14_ReturnsFirstInSnapshotOrder ==
    detected.called =>
        IF Eligible = {}
        THEN detected.pid = 0
        ELSE detected.pid \in Eligible /\ \A q \in Eligible : detected.pid <= q

\* a process that is not a known game and covers the screen was returned
\* although a known game with a visible window follows it in the snapshot
C14_Witness ==
    /\ detected.called
    /\ detected.pid \in Eligible \ KnownGames
    /\ \E g \in Eligible \cap KnownGames : g > detected.pid

\* C15: a known game with a visible window that no eligible process precedes
\* is returned whatever its window bounds, and a known game that is returned
\* has a visible window
C15_KnownGameWithWindowReturned ==
    detected.called =>
        /\ \A p \in KnownGames :
              (/\ windows[p].visible
               /\ p # current_pid
               /\ \A q \in Eligible : q >= p) => detected.pid = p
        /\ detected.pid \in KnownGames => windows[detected.pid].visible

\* a known game whose name differs in case from the list entry and whose
\* window is smaller than the screen was returned, and another known game
\* before it has no visible window
C15_Witness ==
    /\ detected.called
    /\ detected.pid \in KnownGames
    /\ PidName[detected.pid] \notin KNOWN_GAMES
    /\ windows[detected.pid].width < screen_w
    /\ \E g \in KnownGames : g < detected.pid /\ ~windows[g].visible

\* C16: a process that is not a known game is returned when its window has
\* exactly the screen's width and height and no eligible process precedes it;
\* a returned process that is not a known game has a window of at least the
\* screen's width and height; the application itself and the excluded
\* processes are never returned
C16_FullscreenRuleInclusive ==
    detected.called =>
        /\ \A p \in alive \ KnownGames :
              (/\ p # current_pid
               /\ \A e \in EXCLUDED_PROCESSES : Lower(e) # Lower(PidName[p])
               /\ windows[p].visible
               /\ windows[p].width = screen_w
               /\ windows[p].height = screen_h
               /\ \A q \in Eligible : q >= p) => detected.pid = p
        /\ (detected.pid # 0 /\ detected.pid \notin KnownGames) =>
              /\ windows[detected.pid].width >= screen_w
              /\ windows[detected.pid].height >= screen_h
        /\ detected.pid # current_pid
        /\ \A e \in EXCLUDED_PROCESSES :
              detected.pid # 0 => Lower(e) # Lower(PidName[detected.pid])

\* a process with a window of exactly the screen's bounds was returned while
\* the application and an excluded process, earlier in the snapshot, cover the
\* screen too
C16_Witness ==
    /\ detected.called
    /\ detected.pid \notin KnownGames
    /\ detected.pid # 0
    /\ windows[detected.pid].width = screen_w
    /\ windows[detected.pid].height = screen_h
    /\ windows[current_pid].visible /\ windows[current_pid].width >= screen_w
    /\ windows[current_pid].height >= screen_h
    /\ \E x \in alive : /\ x < detected.pid
                         /\ \E e \in EXCLUDED_PROCESSES : Lower(e) = Lower(PidName[x])
                         /\ windows[x].visible
                         /\ windows[x].width >= screen_w /\ windows[x].height >= screen_h

\* C17: whenever the tray Exit handler has terminated the process, no session
\* is applied: the last completed orchestrator operation is a disable, or none
\* has run
C17_ExitOnlyWhenNoSessionApplied ==
    exited => hist.lastOp # "enable"

\* the positions in the steps of the last operation at which step e is taken
StepsAt(e) == {i \in 1..Len(calls.steps) : calls.steps[i] = e}

KillSteps == {i \in 1..Len(calls.steps) : calls.steps[i].kind = "kill"}

\* C18: in an enable_game_mode with suspend_explorer set, the detection comes
\* before every kill, the power-setting unlock, the registry tweaks and the
\* power-plan change come before every kill, and the focus of the detected
\* window comes after the explorer kill
C18_EnableStepOrder ==
    (calls.op = "enable" /\ hist.enOpts.suspend_explorer) =>
        /\ StepsAt(Call("detect_fullscreen_game")) # {}
        /\ StepsAt(Kill("explorer")) # {}
        /\ StepsAt(Kill("START_MENU_REPLACEMENTS")) # {}
        /\ \A k \in KillSteps :
              /\ \A i \in StepsAt(Call("detect_fullscreen_game")) : i < k
              /\ \E i \in StepsAt(Call("unlock_power_settings")) : i < k
              /\ \E i \in StepsAt(Call("apply_tweaks")) : i < k
              /\ \E i \in StepsAt(Call("set_high_performance"))
                           \cup StepsAt(Call("optimize_laptop_boost")) : i < k
        /\ \A i \in StepsAt(Call("focus_window")) :
              \E k \in StepsAt(Kill("explorer")) : k < i

\* an enable_game_mode with suspend_explorer set has found a window and
\* focused it
C18_Witness ==
    /\ calls.op = "enable"
    /\ hist.enOpts.suspend_explorer
    /\ StepsAt(Call("focus_window")) # {}

\* C19: in every enable_game_mode and disable_game_mode, each thread spawned
\* is joined before the operation returns
C19_EveryThreadJoined ==
    calls.op \in {"enable", "disable"} =>
        \A i \in 1..Len(calls.steps) :
            calls.steps[i].kind = "spawn" =>
                \E j \in (i + 1)..Len(calls.steps) :
                    calls.steps[j] = JoinThread(calls.steps[i].name)

\* a disable_game_mode has spawned and joined the explorer-restart thread and
\* the network thread
C19_Witness ==
    /\ calls.op = "disable"
    /\ StepsAt(SpawnThread("restart_explorer")) # {}
    /\ StepsAt(SpawnThread("toggle_isolation")) # {}
    /\ StepsAt(JoinThread("toggle_isolation")) # {}

\* C20: every name stop_optimization_services returned in an enable is in the
\* catalog, was running when queried and its stop call did not fail; a
\* catalog service that is not installed, was not running or whose stop call
\* failed is not returned; no name is returned twice
C20_StoppedNamesAreCatalogRunningStopped ==
    calls.op = "enable" =>
        /\ \A i \in 1..Len(calls.returned) :
              /\ calls.returned[i] \in OPTIMIZATION_SERVICES
              /\ calls.returned[i] \in calls.running
              /\ calls.returned[i] \notin calls.stopFailed
        /\ \A name \in OPTIMIZATION_SERVICES :
              (name \notin Services \/ name \notin calls.running
               \/ name \in calls.stopFailed)
                 => \A i \in 1..Len(calls.returned) : calls.returned[i] # name
        /\ \A i, j \in 1..Len(calls.returned) :
              calls.returned[i] = calls.returned[j] => i = j

\* an enable has returned a stopped service and left out a catalog service
\* that was not running
C20_Witness ==
    /\ calls.op = "enable"
    /\ calls.returned # <<>>
    /\ \E name \in (OPTIMIZATION_SERVICES \cap Services) \ calls.running :
          \A i \in 1..Len(calls.returned) : calls.returned[i] # name

\* C21: a disable_game_mode starts only services that are among the names
\* handed to restore_services and were not running when queried, and opens no
\* service outside those names
C21_StartsOnlyNamedStoppedServices ==
    calls.op = "disable" =>
        /\ calls.started \subseteq calls.names \ calls.running
        /\ calls.startQueried \subseteq calls.names

\* restore_services was handed a service that had been started again by
\* someone else, left it alone, and started another one
C21_Witness ==
    /\ calls.op = "disable"
    /\ calls.started # {}
    /\ (calls.names \cap calls.running) \ calls.started # {}

\* C22: every pid suspend_processes returned in an enable_game_mode is one
\* whose NtSuspendProcess call succeeded
C22_ResultHoldsOnlySuspendedPids ==
    calls.op = "enable" => calls.pushed \subseteq calls.suspendOk

LaptopSlots == {"laptop_active_scheme", "original_boost_mode", "original_min_processor"}

\* C24: on the laptop branch a disable_game_mode writes back no power value
\* and re-applies no scheme unless the enable_game_mode it reverts captured
\* them.
C24_LaptopRevertWritesOnlySessionCaptures ==
    (calls.op = "disable" /\ hist.revEnabled /\ ~calls.power.desktop) =>
        (calls.writeBack \cap LaptopSlots) \subseteq hist.revFresh

\* C25: the chassis is queried at most once, and a disable_game_mode that
\* reverts an enable_game_mode takes the power branch that enable took.
C25_ClassificationComputedOnce ==
    /\ hist.wmicRuns <= 1
    /\ (calls.op = "disable" /\ hist.revEnabled) =>
           calls.power.desktop = hist.revDesktop

C25_Witness ==
    /\ calls.op = "disable"
    /\ hist.revEnabled
    /\ IS_DESKTOP.set
    /\ chassis # IS_DESKTOP.value
    /\ calls.power.desktop = IS_DESKTOP.value

C27_RestoresSessionLevelOrNormal ==
    (advCalls.op = "disable" /\ advHist.revLevel # "none") =>
        advCalls.level = IF advHist.revLevel = "failed" THEN "normal" ELSE advHist.revLevel

\* C28: when disable_game_mode has returned the session state is empty:
\* no suspended pid and no stopped service is recorded, network_isolated is
\* false and every original-value slot of the registry service is None.
C28_SessionStateEmptyAfterDisable ==
    calls.op = "disable" =>
        /\ suspended_shell_ux_pids = <<>>
        /\ stopped_services = <<>>
        /\ ~network_isolated
        /\ \A slot \in DOMAIN registry : registry[slot] = None

C30_OriginalsReadBeforeFirstWrite ==
    (app.reviRan /\ revi.applied) =>
        /\ \A i \in 1..Len(REGISTRY_TWEAKS) :
               revi.registry_values[REGISTRY_TWEAKS[i].value_name]
                   = get_registry_dword(app.reviPre, REGISTRY_TWEAKS[i].value_name)
        /\ \A i \in 1..Len(STRING_TWEAKS) :
               revi.registry_values[STRING_TWEAKS[i].key]
                   = get_registry_string(app.reviPre, STRING_TWEAKS[i].value_name)

\* C31: a ReviTweaksService::disable that follows the enable, with no change
\* by others in between, leaves every value of the tweak table as it was
\* before the enable: same content and type, absent if it was absent.
C31_ReviRoundTripRestores ==
    app.reviRound => app.reviChanged = {}

SharedKeys ==
    {"HwSchMode", "SystemResponsiveness", "Priority", "Scheduling Category",
     "SFIO Priority", "Attributes"}

\* C33: after a toggle-on and a toggle-off with the ReviOS tweaks and the
\* hardware-tweak modules switched on, every value that more than one
\* provider writes is what it was at the toggle-on click.
C33_SharedValuesRestored ==
    (app.cycle = "done" /\ app.session.advanced
        /\ app.session.advanced_modules.enable_hags
        /\ app.session.advanced_modules.mmcss_priority_boost) =>
        \A k \in SharedKeys : reg[k] = app.cyclePre[k]

\* the threads that have been granted the guard and have not yet returned
\* from the orchestrator operation called under it
inside_orchestrator ==
    {w \in DOMAIN workers : workers[w].pc \in {"in_enable", "in_disable"}}
        \cup (IF monitor.pc = "in_disable" THEN {MonitorThread} ELSE {})

\* the threads blocked in service.lock()
waiting_for_guard ==
    {w \in DOMAIN workers : workers[w].pc \in {"on_enable", "off_disable"}}
        \cup (IF monitor.pc = "disable" THEN {MonitorThread} ELSE {})

\* C34: across the toggle workers and the monitor thread, at most one thread
\* is inside enable_game_mode or disable_game_mode at any time, and that
\* thread holds the mutex of the service.
C34_OneThreadInsideOrchestrator ==
    /\ Cardinality(inside_orchestrator) <= 1
    /\ inside_orchestrator \subseteq {service_lock}

\* a worker is inside an operation while the monitor is blocked at the lock
C34_Witness ==
    /\ Cardinality(inside_orchestrator) = 1
    /\ MonitorThread \in waiting_for_guard

\* C35: the disable path of a session (disable_game_mode and the restores
\* that follow it) is run by the monitor or by the toggle-off worker, never
\* by both.  app.offLive: the last toggle-off was clicked while the session
\* was applied; app.tornBy: the threads that have run disable_game_mode
\* since the last enable_game_mode, a toggle-off worker counted only if
\* app.offLive.
C35_TeardownByOneThread == app.tornBy # {"monitor", "toggle"}

\* C36: in every reachable state, is_monitoring = true implies that
\* monitored_pid is non-zero.
C36_MonitoringImpliesPid == is_monitoring => monitored_pid # 0

C38_TrackedPidNotOnKillList ==
    \A w \in DOMAIN workers :
        (workers[w].pc = "on_monitoring" /\ monitored_pid # 0)
            => ~Matches(monitored_pid, all_to_kill(workers[w].gate.options))

\* C11: whenever the monitor's disable path has torn down an applied session,
\* the pid the monitor acted on is the pid that session stored, and the process
\* that session tracks was not alive
C11_MonitorActsOnCurrentSessionPid ==
    (app.by = "monitor" /\ app.reverted) => (~app.stale /\ ~app.tornLive)

====
